---- MODULE Spec2Model ----
(***************************************************************************)
(* struct-marshal: translation between two Go structs through a generic    *)
(* tree (map[string]interface{}), driven by the `sm` struct tag.           *)
(*                                                                         *)
(* Marshal   = StructEncoder.Init ; StructEncoder.Run                      *)
(* Unmarshal = StructDecoder.Init ; StructDecoder.Run                      *)
(*                                                                         *)
(* Strings of the program that the code splits or matches (struct tags,    *)
(* path segments) are sequences of tokens: a name is one token, and each   *)
(* separator (".", ",", "|", ":", "types<", ">", "[", "]") is one token.   *)
(* Concat turns a token sequence back into the Go string (a map key).      *)
(***************************************************************************)
EXTENDS Integers, Sequences, FiniteSets, TLC

\* ------------------------------------------------------------------ bounds
\* int fields range over 0..MaxInt
MaxInt == 1
\* slices hold at most MaxListLen elements
MaxListLen == 1

\* --------------------------------------------------------------- constants
FIELD_TAG_KEY == "sm"
TYPES_SPLIT == "|"
TYPES_PATH_SPLIT == ":"
DISMISS_NESTED == "->"
MULTI_TYPE_NAME == "+"
ERROR_PER_TYPE_PATH_IS_NOT_VALID == "main path should be '+' when using per-type path matching"
ERROR_DST_NOT_POINTER == "dst must be a non-nil pointer"

\* ------------------------------------------------------------- Go strings
RECURSIVE Concat(_)
Concat(toks) == IF toks = <<>> THEN "" ELSE Head(toks) \o Concat(Tail(toks))

\* strings.Split(s, sep) on a token sequence: always at least one part
RECURSIVE Split(_, _)
Split(s, sep) ==
    IF s = <<>> THEN << <<>> >>
    ELSE IF Head(s) = sep THEN << <<>> >> \o Split(Tail(s), sep)
    ELSE LET r == Split(Tail(s), sep)
         IN  << <<Head(s)>> \o Head(r) >> \o Tail(r)

Digits == {"0", "1", "2"}

\* strconv.Atoi with the error dropped (idx, _ := strconv.Atoi(..)): 0 on error
DigitVal(d) == CASE d = "0" -> 0 [] d = "1" -> 1 [] d = "2" -> 2 [] OTHER -> 0
RECURSIVE AtoiAcc(_, _)
AtoiAcc(ds, acc) == IF ds = <<>> THEN acc ELSE AtoiAcc(Tail(ds), acc * 10 + DigitVal(Head(ds)))
Atoi(ds) == IF ds = <<>> THEN 0 ELSE AtoiAcc(ds, 0)

\* --------------------------------------------------------------- Go values
VStr(s) == [k |-> "string", s |-> s]
VInt(i) == [k |-> "int", i |-> i]
VBool(b) == [k |-> "bool", b |-> b]
\* a float64, a kind getFieldValue has no case for
VFloat(i) == [k |-> "float64", i |-> i]
VStruct(t, f) == [k |-> "struct", t |-> t, f |-> f]
VNilPtr(t) == [k |-> "ptr", t |-> t, isnil |-> TRUE]
VPtr(t, v) == [k |-> "ptr", t |-> t, isnil |-> FALSE, e |-> v]
VNilSlice(et) == [k |-> "slice", et |-> et, isnil |-> TRUE, e |-> <<>>]
VSlice(et, elems) == [k |-> "slice", et |-> et, isnil |-> FALSE, e |-> elems]
\* a map[string]vt: a nil one, and one with the entries m
VNilMap(vt) == [k |-> "map", vt |-> vt, isnil |-> TRUE, m |-> <<>>]
VMap(vt, m) == [k |-> "map", vt |-> vt, isnil |-> FALSE, m |-> m]
\* reflect.Value{} (Kind() == reflect.Invalid), what Elem() of a nil pointer gives
VInvalid == [k |-> "invalid"]

\* ------------------------------------------------------------- tree values
\* map[string]interface{} and what it holds; TNil is the nil interface value
TNil == [k |-> "nil"]
\* a nil map[string]interface{} held in an interface value: not equal to nil
TNilMap == [k |-> "nilmap"]
TStr(s) == [k |-> "str", s |-> s]
TNum(i) == [k |-> "num", i |-> i]
TBool(b) == [k |-> "bool", b |-> b]
TMap(m) == [k |-> "map", m |-> m]
TSeq(s) == [k |-> "seq", e |-> s]
EmptyMap == [x \in {} |-> TNil]
MapGet(m, key) == IF key \in DOMAIN m THEN m[key] ELSE TNil
MapPut(m, key, v) == [x \in DOMAIN m \cup {key} |-> IF x = key THEN v ELSE m[x]]

\* ------------------------------------------------------------ struct types
\* A field declaration: reflect.StructField (Name, Tag) with the field's Kind;
\* T is the struct type of a struct or pointer field, the element type of a slice.
\* sm is the raw `sm` tag (<<>> when the key is absent), json the `json` tag.
FieldDecl(name, kind, t, sm, json) == [Name |-> name, Kind |-> kind, T |-> t, sm |-> sm, json |-> json]

\* the struct types the calls are made with. The peers are the API objects of the
\* package's tests and the annotated ones their internal counterparts; Destination is the record of the per-type path
\* test with a second field, SingleDestination, BadNested, BadSpliced and
\* BadSlice are records a caller may declare around the same annotation,
\* NestedSplice is a record whose nested struct declares a "->" field,
\* GatedDeep is a record whose nested struct and slice elements have fields
\* with type clauses, one of them listing the name of its own struct,
\* Measured is a record with a field, a slice and a map of a kind that has no tree value,
\* Slotted is a record whose paths have the segments somelist[] and, as the last
\* one, somelist2[0], SecondSlot is a record whose path has somelist[1], TailSpliced is a record whose struct is
\* annotated with "->" as the last of two segments, Labelled is a record with
\* maps, one of them annotated "->", Repeated is a record whose annotations
\* have several clauses for one type name, and
\* the anon.* types are the struct literals of the tests
PeerTypes == {"APIObject", "SecondaryAPIObject", "anon.Peer"}
AnnotatedTypes == {"SystemStruct", "SystemStructWithMultipleDestination", "Destination",
                   "SingleDestination", "anon.Gated", "anon.Untagged", "BadNested", "BadSpliced", "BadSlice",
                   "NestedSplice", "GatedDeep", "Measured", "Slotted", "SecondSlot", "TailSpliced",
                   "Labelled", "Repeated"}
\* struct{...} literals: reflect's Type.Name() of an unnamed type is ""
AnonymousTypes == {"anon.Peer", "anon.Gated", "anon.Untagged"}

TypesAB == <<"types<", "APIObject", "|", "SecondaryAPIObject", ">">>
TypesPerPath == <<"types<", "APIObject", ":", "metadata", ".", "flag", "|",
                  "SecondaryAPIObject", ":", "configflag", ">">>

StructFields(t) ==
    CASE t = "APIMetadata" -> <<
            FieldDecl("NameField", "string", "", <<>>, "namefield"),
            FieldDecl("Flag", "bool", "", <<>>, "flag") >>
      [] t = "APIDeepNested" -> <<
            FieldDecl("Direction2", "string", "", <<>>, "direction2") >>
      [] t = "APIListedObjConfig" -> <<
            FieldDecl("DeepNested", "struct", "APIDeepNested", <<>>, "deepnested"),
            FieldDecl("Direction", "string", "", <<>>, "direction") >>
      [] t = "APIListedObj" -> <<
            FieldDecl("List", "slice", "string", <<>>, "list"),
            FieldDecl("Config", "struct", "APIListedObjConfig", <<>>, "config") >>
      [] t = "APIConfig" -> <<
            FieldDecl("SomeCount", "int", "", <<>>, "somecount"),
            FieldDecl("SomeList", "slice", "APIListedObj", <<>>, "somelist"),
            FieldDecl("SomeList2", "slice", "*APIListedObj", <<>>, "somelist2") >>
      [] t = "APIObject" -> <<
            FieldDecl("Metadata", "struct", "APIMetadata", <<>>, "metadata"),
            FieldDecl("Config", "struct", "APIConfig", <<>>, "config") >>
      [] t = "SecondaryAPIObjectChild" -> <<
            FieldDecl("Direction", "string", "", <<>>, "direction") >>
      [] t = "SecondaryAPIObject" -> <<
            FieldDecl("Metadata", "struct", "APIMetadata", <<>>, "metadata"),
            FieldDecl("ConfigFlag", "bool", "", <<>>, "configflag"),
            FieldDecl("Child", "struct", "SecondaryAPIObjectChild", <<>>, "child") >>
      [] t = "anon.Peer" -> <<
            FieldDecl("ConfigFlag", "bool", "", <<>>, "configflag") >>
      [] t = "SystemDeepNested" -> <<
            FieldDecl("Direction", "string", "", <<"direction2">>, "") >>
      [] t = "SystemNested" -> <<
            FieldDecl("Direction", "string", "", <<"direction">>, ""),
            FieldDecl("DeeepNested", "struct", "SystemDeepNested", <<"deepnested">>, "") >>
      [] t = "SystemStruct" -> <<
            FieldDecl("Name", "string", "", <<"metadata", ".", "namefield">>, ""),
            FieldDecl("Count", "int", "", <<"config", ".", "somecount">>, ""),
            FieldDecl("Flag", "bool", "", <<"metadata", ".", "flag">>, ""),
            FieldDecl("Nested", "struct", "SystemNested",
                      <<"config", ".", "somelist", "[", "0", "]", ".", "config">>, ""),
            FieldDecl("NestedPointer", "ptr", "SystemNested",
                      <<"config", ".", "somelist2", "[", "0", "]", ".", "config">>, ""),
            FieldDecl("ListedStuff", "slice", "string",
                      <<"config", ".", "somelist", "[", "0", "]", ".", "list">>, "") >>
      [] t = "NestedStructWithMultipleDestinations" -> <<
            FieldDecl("Direction", "string", "",
                      <<"child", ".", "direction", ",", "types<", "SecondaryAPIObject", ">">>, "") >>
      [] t = "SystemStructWithMultipleDestination" -> <<
            FieldDecl("Name", "string", "", <<"metadata", ".", "namefield", ",">> \o TypesAB, ""),
            FieldDecl("Flag", "bool", "", <<"+", ",">> \o TypesPerPath, ""),
            FieldDecl("Blackhole", "string", "", <<"dismiss", ",", "types<", "InexistentType", ">">>, ""),
            FieldDecl("DismissNested", "struct", "NestedStructWithMultipleDestinations", <<"->">>, "") >>
      [] t = "Destination" -> <<
            FieldDecl("Flag", "bool", "", <<"metadata", ".", "flag", ",">> \o TypesPerPath, ""),
            FieldDecl("Tail", "string", "", <<"metadata", ".", "namefield">>, "") >>
      [] t = "SingleDestination" -> <<
            FieldDecl("Flag", "bool", "",
                      <<"metadata", ".", "flag", ",", "types<", "APIObject", ":", "metadata", ".", "flag", ">">>, "") >>
      [] t = "anon.Gated" -> <<
            FieldDecl("Name", "string", "", <<"metadata", ".", "name", ",", "types<", "SecondaryAPIObject", ">">>, ""),
            FieldDecl("Flag", "bool", "", <<"configflag", ",", "types<", "APIObject", ">">>, "") >>
      [] t = "anon.Untagged" -> <<
            FieldDecl("Name", "string", "", <<>>, ""),
            FieldDecl("Flag", "bool", "", <<"configflag">>, "") >>
      [] t = "BadNested" -> <<
            FieldDecl("Name", "string", "", <<"metadata", ".", "namefield">>, ""),
            FieldDecl("Child", "struct", "Destination", <<"config">>, "") >>
      [] t = "BadSpliced" -> <<
            FieldDecl("Name", "string", "", <<"metadata", ".", "namefield">>, ""),
            FieldDecl("Child", "struct", "Destination", <<"->">>, "") >>
      [] t = "BadSlice" -> <<
            FieldDecl("Name", "string", "", <<"metadata", ".", "namefield">>, ""),
            FieldDecl("Items", "slice", "Destination", <<"config", ".", "somelist">>, "") >>
      [] t = "GatedChild" -> <<
            FieldDecl("Name", "string", "", <<"namefield", ",", "types<", "APIObject", ">">>, ""),
            FieldDecl("Flag", "bool", "", <<"flag", ",", "types<", "GatedChild", ">">>, "") >>
      [] t = "GatedListed" -> <<
            FieldDecl("Direction", "string", "",
                      <<"config", ".", "direction", ",", "types<", "APIObject", ">">>, ""),
            FieldDecl("Deep", "string", "",
                      <<"config", ".", "deepnested", ".", "direction2", ",",
                        "types<", "GatedListed", ">">>, "") >>
      [] t = "GatedDeep" -> <<
            FieldDecl("Inner", "struct", "GatedChild", <<"metadata">>, ""),
            FieldDecl("Items", "slice", "GatedListed", <<"config", ".", "somelist">>, "") >>
      [] t = "Measured" -> <<
            FieldDecl("Name", "string", "", <<"metadata", ".", "namefield">>, ""),
            FieldDecl("Ratio", "float64", "", <<"config", ".", "somecount">>, ""),
            FieldDecl("Samples", "slice", "float64", <<"config", ".", "direction">>, ""),
            FieldDecl("Weights", "map", "float64", <<"config", ".", "somelist">>, "") >>
      [] t = "Labelled" -> <<
            FieldDecl("Name", "string", "", <<"metadata", ".", "namefield">>, ""),
            FieldDecl("Labels", "map", "string", <<"->">>, ""),
            FieldDecl("Extra", "map", "string", <<"config">>, "") >>
      [] t = "Slotted" -> <<
            FieldDecl("Name", "string", "", <<"metadata", ".", "namefield">>, ""),
            FieldDecl("Unindexed", "string", "",
                      <<"config", ".", "somelist", "[", "]", ".", "config", ".", "direction">>, ""),
            FieldDecl("Last", "string", "", <<"config", ".", "somelist2", "[", "0", "]">>, "") >>
      [] t = "Repeated" -> <<
            FieldDecl("Name", "string", "",
                      <<"+", ",", "types<", "APIObject", ":", "metadata", ".", "namefield", "|",
                        "APIObject", ":", "config", ".", "somelist", "[", "0", "]", ".", "config", ".", "direction", "|",
                        "SecondaryAPIObject", ":", "metadata", ".", "namefield", ">">>, ""),
            FieldDecl("Tail", "string", "",
                      <<"+", ",", "types<", "SecondaryAPIObject", ":", "child", ".", "direction", "|",
                        "SecondaryAPIObject", ">">>, "") >>
      [] t = "SecondSlot" -> <<
            FieldDecl("Name", "string", "", <<"metadata", ".", "namefield">>, ""),
            FieldDecl("Second", "string", "",
                      <<"config", ".", "somelist", "[", "1", "]", ".", "config", ".", "direction">>, "") >>
      [] t = "TailSpliced" -> <<
            FieldDecl("Name", "string", "", <<"metadata", ".", "namefield">>, ""),
            FieldDecl("Child", "struct", "SystemDeepNested", <<"config", ".", "->">>, "") >>
      [] t = "SpliceLeaf" -> <<
            FieldDecl("Name", "string", "", <<"metadata", ".", "namefield">>, "") >>
      [] t = "SpliceHolder" -> <<
            FieldDecl("Spliced", "struct", "SpliceLeaf", <<"->">>, "") >>
      [] t = "NestedSplice" -> <<
            FieldDecl("Inner", "struct", "SpliceHolder", <<"config">>, "") >>

\* the pointer types that are element types of slices ([]*APIListedObj), and
\* the struct type each points to
PointerTypes == {"*APIListedObj"}
Pointee(pt) == CASE pt = "*APIListedObj" -> "APIListedObj"

\* reflect.Type.Name()
TypeName(t) == IF t \in AnonymousTypes THEN "" ELSE t
NumField(t) == Len(StructFields(t))

\* -------------------------------------------------------------------- tags
\* TypeMatch{Path, Name}; Matches tells a found (or empty) match from the nil
\* pointer findTypeMatch returns when type options are set and none matches
TypeMatch(name, path) == [Name |-> name, Path |-> path, Matches |-> TRUE]
EmptyTypeMatch == [Name |-> "", Path |-> <<>>, Matches |-> TRUE]
NilTypeMatch == [Name |-> "", Path |-> <<>>, Matches |-> FALSE]
EmptyFieldTag == [RawOpts |-> <<>>, Path |-> <<>>, Opts |-> [MatchTypes |-> <<>>]]

\* one clause, already split on ":": the type name and the optional path
TypeMatchOf(typeParts) ==
    TypeMatch(Concat(typeParts[1]),
              IF Len(typeParts) > 1 THEN Split(typeParts[2], ".") ELSE <<>>)
TypeMatchesOf(parts) == [i \in 1..Len(parts) |-> TypeMatchOf(Split(parts[i], TYPES_PATH_SPLIT))]

\* "typeName1:fieldPath1|typeName2:fieldPath2|..." in declaration order
parseTypeMatches(data) == TypeMatchesOf(Split(data, TYPES_SPLIT))

\* TYPE_OPTS_REGEX = `^types<([^>]+)>$`
TypeOptsMatch(opt) ==
    /\ Len(opt) >= 3
    /\ opt[1] = "types<"
    /\ opt[Len(opt)] = ">"
    /\ \A i \in 2..(Len(opt) - 1) : opt[i] \notin {">", DISMISS_NESTED}

\* every option that matches the regex replaces MatchTypes: the last one stays
RECURSIVE parseTagOptsFrom(_, _)
parseTagOptsFrom(opts, options) ==
    IF opts = <<>> THEN options
    ELSE parseTagOptsFrom(Tail(opts),
             IF TypeOptsMatch(Head(opts))
             THEN [MatchTypes |-> parseTypeMatches(SubSeq(Head(opts), 2, Len(Head(opts)) - 1))]
             ELSE options)
parseTagOpts(opts) == parseTagOptsFrom(opts, [MatchTypes |-> <<>>])

\* the FieldTag of a non-empty tag split on ","
FieldTagOf(tagParts) ==
    [RawOpts |-> Tail(tagParts),
     Path |-> Split(tagParts[1], "."),
     Opts |-> IF Len(tagParts) > 1 THEN parseTagOpts(Tail(tagParts)) ELSE [MatchTypes |-> <<>>]]

\* a parse that takes the field's name as the path when the tag is absent
parseTagOrName(stfield) ==
    [tag |-> FieldTagOf(Split(IF stfield.sm = <<>> THEN <<stfield.Name>> ELSE stfield.sm, ",")),
     skip |-> FALSE]

\* field.Tag.Get(FIELD_TAG_KEY) then the split on "," and "."
parseTag(stfield) ==
    IF stfield.sm = <<>>
    THEN [tag |-> EmptyFieldTag, skip |-> TRUE]
    ELSE [tag |-> FieldTagOf(Split(stfield.sm, ",")), skip |-> FALSE]

\* the clauses named typeName, by position
TypeHits(mt, typeName) == {i \in 1..Len(mt) : mt[i].Name = typeName}
\* a scan that keeps the last clause it meets
LastOf(hits) == CHOOSE i \in hits : \A j \in hits : i >= j
\* for _, match := range t.Opts.MatchTypes { if match.Name == typeName { ...; break } }
FirstOf(hits) == CHOOSE i \in hits : \A j \in hits : i <= j

\* a lookup that finds no clause for any name
findNoMatch(t, typeName) == NilTypeMatch

\* first clause whose name is typeName; the empty match when there are no type
\* options or typeName is ""; nil when there are options and none matches
findTypeMatch(t, typeName) ==
    IF Len(t.Opts.MatchTypes) > 0 /\ typeName # ""
    THEN IF TypeHits(t.Opts.MatchTypes, typeName) = {} THEN NilTypeMatch
         ELSE t.Opts.MatchTypes[FirstOf(TypeHits(t.Opts.MatchTypes, typeName))]
    ELSE EmptyTypeMatch

\* ------------------------------------------------------------------ Field
DissmisNesting(path) == Concat(path[1]) = DISMISS_NESTED

\* the error when the match has a path and the main path is not the single "+"
checkPerTypePathNaming(f, match) ==
    IF \/ (Len(match.Path) > 0 /\ Concat(f.tag.Path[1]) # MULTI_TYPE_NAME)
       \/ (Len(match.Path) > 0 /\ Len(f.tag.Path) > 1)
    THEN ERROR_PER_TYPE_PATH_IS_NOT_VALID
    ELSE ""

\* a resolution that keeps the tag's main path whatever the match holds
resolveWithMainPath(f, match) ==
    IF match.Matches
    THEN [f EXCEPT !.err = checkPerTypePathNaming(f, match), !.Path = f.tag.Path]
    ELSE [f EXCEPT !.Path = f.tag.Path, !.Skip = TRUE]

\* resolvePath once findTypeMatch has returned match
resolveWith(f, match) ==
    IF match.Matches
    THEN [f EXCEPT !.err = checkPerTypePathNaming(f, match),
                   !.Path = IF Len(match.Path) > 0 THEN match.Path ELSE f.tag.Path]
    ELSE [f EXCEPT !.Path = f.tag.Path, !.Skip = TRUE]

\* f.Path defaults to the tag's main path; a match with a path replaces it (also
\* when the naming check fails); no match sets Skip
resolvePath(f) == resolveWith(f, findTypeMatch(f.tag, f.Target))

\* the Field as Init has set it before the tag decides
FieldOf(stfield, value, rootStruct, tag) ==
    [Value |-> value, Target |-> rootStruct, stfield |-> stfield, Kind |-> value.k,
     tag |-> tag, Skip |-> FALSE, Path |-> <<>>, err |-> ""]
FieldParsed(stfield, value, rootStruct, parsed) ==
    IF parsed.skip
    THEN [FieldOf(stfield, value, rootStruct, parsed.tag) EXCEPT !.Skip = TRUE]
    ELSE resolvePath(FieldOf(stfield, value, rootStruct, parsed.tag))

\* Field.Init(idx, structValue, rootStruct); err = "" is the nil error
FieldInit(idx, structValue, rootStruct) ==
    FieldParsed(StructFields(structValue.t)[idx],
                structValue.f[StructFields(structValue.t)[idx].Name],
                rootStruct,
                parseTag(StructFields(structValue.t)[idx]))

\* reflect.Value.IsZero
RECURSIVE IsZero(_)
IsZero(v) ==
    CASE v.k = "string" -> v.s = ""
      [] v.k = "int" -> v.i = 0
      [] v.k = "bool" -> v.b = FALSE
      [] v.k = "float64" -> v.i = 0
      [] v.k = "ptr" -> v.isnil
      [] v.k = "slice" -> v.isnil
      [] v.k = "map" -> v.isnil
      [] v.k = "struct" -> \A n \in DOMAIN v.f : IsZero(v.f[n])
      [] OTHER -> FALSE

\* a SkipIfEmpty that lets empty values through
SkipNothing(f) == f

SkipIfEmpty(f) == IF IsZero(f.Value) THEN [f EXCEPT !.Skip = TRUE] ELSE f

\* reflect.Value.Elem() of a pointer
Elem(v) == IF v.isnil THEN VInvalid ELSE v.e

IsStruct(f) == IF f.Kind = "ptr" THEN Elem(f.Value).k = "struct" ELSE f.Kind = "struct"
IsStructSlice(f) == f.Kind = "slice" /\ f.Value.et \notin {"string", "float64"} \cup PointerTypes
GetPathAsParent(f) == IF ~DissmisNesting(f.Path) THEN f.Path ELSE <<>>
\* a ChRoot that leaves the field's path as declared
ChRootNowhere(f, root) == f
ChRoot(f, root) == IF root # <<>> THEN [f EXCEPT !.Path = root \o f.Path] ELSE f

\* ---------------------------------------------------------- tree accessors
\* a panic of the Go runtime (index out of range, failed type assertion, method
\* of a zero reflect.Value) and the message of one
RUNTIME_ERROR == "runtime error"
Panic == [st |-> "panic", msg |-> RUNTIME_ERROR]

\* matchArrayExp = "^(.*)\\[([0-9]*)\\]$" on a segment: the positions of a "["
\* that opens a trailing [digits]
ArrayOpens(seg) ==
    {j \in 1..Len(seg) :
        /\ seg[j] = "["
        /\ seg[Len(seg)] = "]"
        /\ j < Len(seg)
        /\ \A x \in (j + 1)..(Len(seg) - 1) : seg[x] \in Digits}
\* the position of that "[", 0 when the segment does not match
ArrayBracket(seg) ==
    IF ArrayOpens(seg) = {} THEN 0
    ELSE CHOOSE j \in ArrayOpens(seg) : \A x \in ArrayOpens(seg) : x <= j

\* NestedPath{idx, field, isArray, data}; hasData is data != nil
NestedPath(idx, field, isArray, hasData, data) ==
    [st |-> "ok", idx |-> idx, field |-> field, isArray |-> isArray,
     hasData |-> hasData, data |-> data]

\* src[fieldName].([]interface{})[idx].(map[string]interface{}) when
\* src[fieldName] != nil: the assertions and the index panic when they fail
ArrayNested(idx, fieldName, held) ==
    IF held = TNil THEN NestedPath(idx, fieldName, TRUE, FALSE, EmptyMap)
    ELSE IF held.k # "seq" THEN Panic
    ELSE IF idx >= Len(held.e) THEN Panic
    ELSE IF held.e[idx + 1].k # "map" THEN Panic
    ELSE NestedPath(idx, fieldName, TRUE, TRUE, held.e[idx + 1].m)

\* srcData.(map[string]interface{}) when srcData != nil
PlainNested(fieldName, srcData) ==
    IF srcData = TNil THEN NestedPath(0, fieldName, FALSE, FALSE, EmptyMap)
    ELSE IF srcData.k # "map" THEN Panic
    ELSE NestedPath(0, fieldName, FALSE, TRUE, srcData.m)

\* parseNestedPath for a first segment whose "[" is at position j (0: none)
NestedAt(src, seg, j) ==
    IF j # 0
    THEN ArrayNested(Atoi(SubSeq(seg, j + 1, Len(seg) - 1)),
                     Concat(SubSeq(seg, 1, j - 1)),
                     MapGet(src, Concat(SubSeq(seg, 1, j - 1))))
    ELSE PlainNested(Concat(seg), MapGet(src, Concat(seg)))

parseNestedPath(src, path) == NestedAt(src, path[1], ArrayBracket(path[1]))

\* creates the container of the next segment when it is absent: an empty map, or
\* a one-slot sequence holding an empty map at idx (slot idx >= 1 of it does not
\* exist: the write panics). Returns the map to continue in and `from` as changed.
initEmptyNestedMapField(nested, from) ==
    IF ~nested.hasData
    THEN IF nested.isArray
         THEN IF nested.idx >= 1 THEN Panic
              ELSE [st |-> "ok", data |-> EmptyMap,
                    from |-> MapPut(from, nested.field, TSeq(<<TMap(EmptyMap)>>))]
         ELSE [st |-> "ok", data |-> EmptyMap,
               from |-> MapPut(from, nested.field, TMap(EmptyMap))]
    ELSE [st |-> "ok", data |-> nested.data, from |-> from]

\* the map returned by initEmptyNestedMapField is a reference into `from`: what
\* `from` holds after that map has become `inner`
WriteThrough(nested, from, inner) ==
    IF nested.isArray
    THEN MapPut(from, nested.field,
                TSeq([from[nested.field].e EXCEPT ![nested.idx + 1] = TMap(inner)]))
    ELSE MapPut(from, nested.field, TMap(inner))

\* GetValueFromMap(src, path...): the nil interface when the last key is absent
\* or nil; when a key on the way is, `return nested.data` returns the nil map
\* of NestedPath.data as an interface value
RECURSIVE GetValueFromMap(_, _)
GetNested(nested, path) ==
    IF nested.st = "panic" THEN Panic
    ELSE IF nested.hasData THEN GetValueFromMap(nested.data, Tail(path))
    ELSE [st |-> "ok", v |-> TNilMap]
GetValueFromMap(src, path) ==
    IF Len(path) = 1
    THEN [st |-> "ok", v |-> MapGet(src, Concat(path[1]))]
    ELSE GetNested(parseNestedPath(src, path), path)

\* ----------------------------------------------------------------- encoder
RECURSIVE getFieldValue(_, _), SetValueIntoMap(_, _, _), EncoderFields(_, _, _, _),
          EncoderGenerate(_, _, _), getSliceValues(_, _, _), getMapValues(_, _, _, _)

\* a nested generate whose error the caller drops: only a panic gets through
EncoderDropError(r) == IF r.st = "panic" THEN r ELSE [st |-> "ok", err |-> "", into |-> r.into]
\* the outcome of generate's pass after SetValueIntoMap returned r
EncoderSetResult(r, into) ==
    IF r.st = "panic" THEN [st |-> "panic", err |-> "", into |-> into, msg |-> r.msg]
    ELSE [st |-> "ok", err |-> "", into |-> r.m]
\* the map a struct value becomes: builder.generate(field.Interface(), result)
\* with the error dropped
StructValue(r) ==
    IF r.st = "panic" THEN [st |-> "panic", msg |-> r.msg] ELSE [st |-> "ok", v |-> TMap(r.into)]
SliceValue(list) == IF list.st = "panic" THEN list ELSE [st |-> "ok", v |-> TSeq(list.v)]
AppendValue(list, h) ==
    IF list.st = "panic" THEN list
    ELSE IF h.st = "panic" THEN h
    ELSE [st |-> "ok", v |-> Append(list.v, h.v)]
MapValue(result) == IF result.st = "panic" THEN result ELSE [st |-> "ok", v |-> TMap(result.v)]
\* result[key] = value
PutValue(result, key, h) ==
    IF result.st = "panic" THEN result
    ELSE IF h.st = "panic" THEN h
    ELSE [st |-> "ok", v |-> MapPut(result.v, key, h.v)]

\* a builder restrained to the name of the struct it is given
BuilderOfOwnType(f, field) == TypeName(field.t)
\* builder.typeRestrain = f.Target for the struct value field
BuilderRestrain(f, field) == f.Target

\* a getFieldValue that gives nil for a kind it has no case for
UnsupportedAsNil(field) == [st |-> "ok", v |-> TNil]
\* msg := fmt.Sprintf("unsupported type: %s", field.Kind().String()); panic(msg)
Unsupported(field) == [st |-> "panic", msg |-> "unsupported type: " \o field.k]

\* the tree value of a reflect.Value; an unsupported kind panics
getFieldValue(f, field) ==
    CASE field.k = "string" -> [st |-> "ok", v |-> TStr(field.s)]
      [] field.k = "int" -> [st |-> "ok", v |-> TNum(field.i)]
      [] field.k = "bool" -> [st |-> "ok", v |-> TBool(field.b)]
      [] field.k = "slice" -> SliceValue(getSliceValues(f, field.e, Len(field.e)))
      [] field.k = "map" ->
            MapValue(getMapValues(f, field.m, DOMAIN field.m, [st |-> "ok", v |-> EmptyMap]))
      [] field.k = "struct" -> StructValue(EncoderGenerate(field, EmptyMap, BuilderRestrain(f, field)))
      [] field.k = "ptr" -> getFieldValue(f, Elem(field))
      [] OTHER -> Unsupported(field)

\* the map getFieldValue builds from the entries of a map that iter.Next() has
\* still to give
MapNext(f, m, keys, result, key) ==
    getMapValues(f, m, keys \ {key}, PutValue(result, key, getFieldValue(f, m[key])))
getMapValues(f, m, keys, result) ==
    IF keys = {} THEN result
    ELSE MapNext(f, m, keys, result, CHOOSE key \in keys : TRUE)

\* the list getFieldValue builds from the first n elements of a slice
getSliceValues(f, elems, n) ==
    IF n = 0 THEN [st |-> "ok", v |-> <<>>]
    ELSE AppendValue(getSliceValues(f, elems, n - 1), getFieldValue(f, elems[n]))

\* the single-segment case of SetValueIntoMap, val being getFieldValue(f.Value):
\* dst = val.(map[string]interface{}) under "->" rebinds the parameter only
SetLeaf(dst, path, val) ==
    IF val.st = "panic" THEN val
    ELSE IF DissmisNesting(path)
    THEN IF val.v.k = "map" THEN [st |-> "ok", m |-> dst] ELSE Panic
    ELSE [st |-> "ok", m |-> MapPut(dst, Concat(path[1]), val.v)]

SetWritten(nested, made, r) ==
    IF r.st = "panic" THEN r
    ELSE [st |-> "ok", m |-> WriteThrough(nested, made.from, r.m)]
SetInto(f, nested, made, path) ==
    IF made.st = "panic" THEN made
    ELSE SetWritten(nested, made, SetValueIntoMap(f, made.data, Tail(path)))
SetNested(f, dst, nested, path) ==
    IF nested.st = "panic" THEN nested
    ELSE SetInto(f, nested, initEmptyNestedMapField(nested, dst), path)

\* SetValueIntoMap(dst, path...): dst after the write
SetValueIntoMap(f, dst, path) ==
    IF Len(path) = 1
    THEN SetLeaf(dst, path, getFieldValue(f, f.Value))
    ELSE SetNested(f, dst, parseNestedPath(dst, path), path)

\* the body of the loop of StructEncoder.generate for an initialised field that
\* is not skipped; `into` is shared, so what a dismissed struct wrote before its
\* error stays in it
EncoderPlace(field, into, typeRestrain) ==
    IF IsStruct(field) /\ DissmisNesting(field.Path)
    THEN \* mb.generate(field.Value.Interface(), into): the error is dropped
         EncoderDropError(EncoderGenerate(field.Value, into, typeRestrain))
    ELSE EncoderSetResult(SetValueIntoMap(field, into, field.Path), into)

\* one pass of the loop, for the field f0 that Field.Init returned
EncoderField(f0, into, typeRestrain) ==
    IF f0.err # "" THEN [st |-> "err", err |-> f0.err, into |-> into]
    ELSE IF SkipIfEmpty(f0).Skip THEN [st |-> "ok", err |-> "", into |-> into]
    ELSE EncoderPlace(f0, into, typeRestrain)

\* the loop of StructEncoder.generate from field i on, r being the outcome of
\* the pass for field i - 1
EncoderFields(data, i, r, typeRestrain) ==
    IF r.st # "ok" \/ i > NumField(data.t) THEN r
    ELSE EncoderFields(data, i + 1,
                       EncoderField(FieldInit(i, data, typeRestrain), r.into, typeRestrain),
                       typeRestrain)

\* StructEncoder.generate(src, into)
EncoderGenerate(src, into, typeRestrain) ==
    IF (IF src.k = "ptr" THEN Elem(src) ELSE src).k # "struct"
    THEN [st |-> "panic", err |-> "", into |-> into, msg |-> RUNTIME_ERROR]
    ELSE EncoderFields(IF src.k = "ptr" THEN Elem(src) ELSE src, 1,
                       [st |-> "ok", err |-> "", into |-> into], typeRestrain)

\* ------------------------------------------------------- encoding/json side
\* the zero value of a field kind / of a struct type (reflect.New(t).Elem())
RECURSIVE Zero(_), ZeroFields(_, _)
ZeroOf(decl) ==
    CASE decl.Kind = "string" -> VStr("")
      [] decl.Kind = "int" -> VInt(0)
      [] decl.Kind = "bool" -> VBool(FALSE)
      [] decl.Kind = "float64" -> VFloat(0)
      [] decl.Kind = "struct" -> Zero(decl.T)
      [] decl.Kind = "ptr" -> VNilPtr(decl.T)
      [] decl.Kind = "slice" -> VNilSlice(decl.T)
      [] decl.Kind = "map" -> VNilMap(decl.T)
ZeroFields(t, i) ==
    IF i = 0 THEN [x \in {} |-> VInvalid]
    ELSE LET decl == StructFields(t)[i]
             rest == ZeroFields(t, i - 1)
         IN  [n \in DOMAIN rest \cup {decl.Name} |->
                 IF n = decl.Name THEN ZeroOf(decl) ELSE rest[n]]
Zero(t) == VStruct(t, ZeroFields(t, NumField(t)))
\* the zero value of a slice's element type
ZeroElem(et) ==
    IF et = "string" THEN VStr("")
    ELSE IF et = "float64" THEN VFloat(0)
    ELSE IF et \in PointerTypes THEN VNilPtr(Pointee(et)) ELSE Zero(et)

\* the key encoding/json uses for a field: the json tag, else the field name
JsonKey(decl) == IF decl.json # "" THEN decl.json ELSE decl.Name

\* the case folding of a key (the names of the records' fields; every other key
\* of the model is in lower case already)
Fold(key) ==
    CASE key = "Name" -> "name"
      [] key = "Count" -> "count"
      [] key = "Flag" -> "flag"
      [] key = "Nested" -> "nested"
      [] key = "NestedPointer" -> "nestedpointer"
      [] key = "ListedStuff" -> "listedstuff"
      [] key = "Direction" -> "direction"
      [] key = "DeeepNested" -> "deeepnested"
      [] key = "Blackhole" -> "blackhole"
      [] key = "DismissNested" -> "dismissnested"
      [] key = "Tail" -> "tail"
      [] key = "Child" -> "child"
      [] key = "Items" -> "items"
      [] key = "Inner" -> "inner"
      [] key = "Deep" -> "deep"
      [] key = "Spliced" -> "spliced"
      [] key = "Ratio" -> "ratio"
      [] key = "Weights" -> "weights"
      [] key = "Labels" -> "labels"
      [] key = "Extra" -> "extra"
      [] key = "Unindexed" -> "unindexed"
      [] key = "Last" -> "last"
      [] key = "Second" -> "second"
      [] key = "Samples" -> "samples"
      [] OTHER -> key
\* the keys of an object that encoding/json decodes into a field: the field's
\* key, else a key that equals it under case folding
FoldKeys(decl, m) == {key \in DOMAIN m : Fold(key) = Fold(JsonKey(decl))}
KeysFor(decl, m) == IF JsonKey(decl) \in DOMAIN m THEN {JsonKey(decl)} ELSE FoldKeys(decl, m)

\* json.Marshal of a Go value read back as interface{}: objects keyed by JsonKey,
\* nil slices and nil pointers as null
RECURSIVE JsonOf(_), JsonOfFields(_, _), JsonOfElems(_)
JsonOf(v) ==
    CASE v.k = "string" -> TStr(v.s)
      [] v.k = "int" -> TNum(v.i)
      [] v.k = "bool" -> TBool(v.b)
      [] v.k = "float64" -> TNum(v.i)
      [] v.k = "slice" -> IF v.isnil THEN TNil ELSE TSeq(JsonOfElems(v.e))
      [] v.k = "map" -> IF v.isnil THEN TNil ELSE TMap([key \in DOMAIN v.m |-> JsonOf(v.m[key])])
      [] v.k = "ptr" -> IF v.isnil THEN TNil ELSE JsonOf(v.e)
      [] v.k = "struct" -> TMap(JsonOfFields(v, NumField(v.t)))
JsonOfElems(elems) == [i \in 1..Len(elems) |-> JsonOf(elems[i])]
JsonOfFields(v, i) ==
    IF i = 0 THEN EmptyMap
    ELSE LET decl == StructFields(v.t)[i]
         IN  MapPut(JsonOfFields(v, i - 1), JsonKey(decl), JsonOf(v.f[decl.Name]))

\* json.Marshal of a tree read back: a nil map is written as null
RECURSIVE Marshalled(_)
Marshalled(tv) ==
    CASE tv.k = "nilmap" -> TNil
      [] tv.k = "map" -> TMap([key \in DOMAIN tv.m |-> Marshalled(tv.m[key])])
      [] tv.k = "seq" -> TSeq([i \in 1..Len(tv.e) |-> Marshalled(tv.e[i])])
      [] OTHER -> tv

\* toMap(from, into): json.Marshal(from) then json.Unmarshal into the map
toMap(from) ==
    LET j == JsonOf(IF from.k = "ptr" /\ ~from.isnil THEN from.e ELSE from)
    IN  IF j.k = "map" THEN [st |-> "ok", m |-> j.m] ELSE [st |-> "err", m |-> EmptyMap]

ERROR_JSON_TYPE == "json: cannot unmarshal value into Go struct field"

\* json.Unmarshal of a tree into a Go value: a field is set from the key equal to
\* its JsonKey (else equal to it under case folding), keys no field has are dropped, a value of the wrong type leaves
\* the field as it was and makes the call return an error after the rest is set
RECURSIVE Hydrate(_, _), HydrateFields(_, _, _), HydrateElems(_, _, _, _),
          HydrateEntries(_, _, _, _)
HydratedPtr(t, r) == [err |-> r.err, v |-> VPtr(t, r.v)]
HydratedSlice(et, r) == [err |-> r.err, v |-> VSlice(et, r.v)]
Hydrate(v, j) ==
    CASE j = TNil ->
            [err |-> FALSE,
             v |-> IF v.k = "ptr" THEN VNilPtr(v.t)
                   ELSE IF v.k = "slice" THEN VNilSlice(v.et)
                   ELSE IF v.k = "map" THEN VNilMap(v.vt) ELSE v]
      [] j # TNil /\ v.k = "string" ->
            IF j.k = "str" THEN [err |-> FALSE, v |-> VStr(j.s)] ELSE [err |-> TRUE, v |-> v]
      [] j # TNil /\ v.k = "int" ->
            IF j.k = "num" THEN [err |-> FALSE, v |-> VInt(j.i)] ELSE [err |-> TRUE, v |-> v]
      [] j # TNil /\ v.k = "bool" ->
            IF j.k = "bool" THEN [err |-> FALSE, v |-> VBool(j.b)] ELSE [err |-> TRUE, v |-> v]
      [] j # TNil /\ v.k = "float64" ->
            IF j.k = "num" THEN [err |-> FALSE, v |-> VFloat(j.i)] ELSE [err |-> TRUE, v |-> v]
      [] j # TNil /\ v.k = "struct" ->
            IF j.k = "map" THEN HydrateFields(v, j.m, NumField(v.t)) ELSE [err |-> TRUE, v |-> v]
      [] j # TNil /\ v.k = "ptr" ->
            HydratedPtr(v.t, Hydrate(IF v.isnil THEN Zero(v.t) ELSE v.e, j))
      [] j # TNil /\ v.k = "slice" ->
            IF j.k = "seq" THEN HydratedSlice(v.et, HydrateElems(v, j.e, 1, <<>>))
            ELSE [err |-> TRUE, v |-> v]
      [] j # TNil /\ v.k = "map" ->
            IF j.k = "map" THEN HydrateEntries(v, j.m, DOMAIN j.m, [err |-> FALSE, v |-> v])
            ELSE [err |-> TRUE, v |-> v]
\* the entries of an object decoded into a map: each one into a new value of
\* the map's value type, which is stored under the key also when the entry is
\* of the wrong type
HydratedEntry(rest, key, r) ==
    [err |-> rest.err \/ r.err, v |-> VMap(rest.v.vt, MapPut(rest.v.m, key, r.v))]
HydrateEntry(v, m, keys, rest, key) ==
    HydrateEntries(v, m, keys \ {key}, HydratedEntry(rest, key, Hydrate(ZeroElem(v.vt), m[key])))
HydrateEntries(v, m, keys, rest) ==
    IF keys = {} THEN rest
    ELSE HydrateEntry(v, m, keys, rest, CHOOSE key \in keys : TRUE)
HydratedField(rest, name, r) ==
    [err |-> rest.err \/ r.err, v |-> [rest.v EXCEPT !.f[name] = r.v]]
HydrateKey(rest, decl, m, key) ==
    HydratedField(rest, decl.Name, Hydrate(rest.v.f[decl.Name], m[key]))
HydrateField(rest, decl, m) ==
    IF KeysFor(decl, m) # {}
    THEN HydrateKey(rest, decl, m, CHOOSE key \in KeysFor(decl, m) : TRUE)
    ELSE rest
HydrateFields(v, m, i) ==
    IF i = 0 THEN [err |-> FALSE, v |-> v]
    ELSE HydrateField(HydrateFields(v, m, i - 1), StructFields(v.t)[i], m)
HydratedElems(r, rest) == [err |-> r.err \/ rest.err, v |-> rest.v]
HydrateElem(v, js, i, acc, r) ==
    HydratedElems(r, HydrateElems(v, js, i + 1, Append(acc, r.v)))
HydrateElems(v, js, i, acc) ==
    IF i > Len(js) THEN [err |-> FALSE, v |-> acc]
    ELSE HydrateElem(v, js, i, acc,
                     Hydrate(IF i <= Len(v.e) THEN v.e[i]
                             ELSE ZeroElem(v.et),
                             js[i]))

\* ----------------------------------------------------------------- decoder
RECURSIVE DecoderFields(_, _, _, _, _, _), DecoderGenerate(_, _, _, _, _),
          generateSlice(_, _, _, _, _)

\* value = val once the nested generate has returned r
DecoderStructValue(r) == [st |-> r.st, err |-> r.err, v |-> TMap(r.into)]
\* value = val once generateSlice has returned r
DecoderSliceValue(r) == [st |-> r.st, err |-> r.err, v |-> TSeq(r.out)]
\* what the source holds at the field's path, mapped element by element for a
\* slice of structs; TNil when there is none
DecoderFound(got, typeRestrain, field) ==
    IF got.st = "panic" THEN [st |-> "panic", err |-> "", v |-> TNil]
    ELSE IF got.v # TNil /\ IsStructSlice(field)
    THEN DecoderSliceValue(generateSlice(got.v, field, typeRestrain, 1, <<>>))
    ELSE [st |-> "ok", err |-> "", v |-> got.v]

\* the value StructDecoder.generate finds for a field that is not skipped: the
\* map generated for a struct, else what GetValueFromMap returns
DecoderFieldValue(src, typeRestrain, field) ==
    IF IsStruct(field)
    THEN DecoderStructValue(DecoderGenerate(src, typeRestrain, field.Value, EmptyMap,
                                            GetPathAsParent(field)))
    ELSE DecoderFound(GetValueFromMap(src, field.Path), typeRestrain, field)

\* into[field.stfield.Name] = value, unless value is nil or generate failed
DecoderStore(val, name, into) ==
    IF val.st # "ok" THEN [st |-> val.st, err |-> val.err, into |-> into]
    ELSE IF val.v = TNil THEN [st |-> "ok", err |-> "", into |-> into]
    ELSE [st |-> "ok", err |-> "", into |-> MapPut(into, name, val.v)]

\* one pass of the loop of StructDecoder.generate, for the field f0 that
\* Field.Init returned
DecoderField(src, typeRestrain, f0, into, parents) ==
    IF f0.err # "" THEN [st |-> "err", err |-> f0.err, into |-> into]
    ELSE IF f0.Skip THEN [st |-> "ok", err |-> "", into |-> into]
    ELSE DecoderStore(DecoderFieldValue(src, typeRestrain, ChRoot(f0, parents)),
                      f0.stfield.Name, into)

\* the loop of StructDecoder.generate from field i on, r being the outcome of
\* the pass for field i - 1
DecoderFields(src, typeRestrain, dst, i, r, parents) ==
    IF r.st # "ok" \/ i > NumField(dst.t) THEN r
    ELSE DecoderFields(src, typeRestrain, dst, i + 1,
                       DecoderField(src, typeRestrain, FieldInit(i, dst, typeRestrain),
                                    r.into, parents),
                       parents)

\* StructDecoder.generate(src, typeRestrain, dst, into, parents...)
DecoderGenerate(src, typeRestrain, dst, into, parents) ==
    IF (IF dst.k = "ptr" THEN Elem(dst) ELSE dst).k # "struct"
    THEN [st |-> "panic", err |-> "", into |-> into]
    ELSE DecoderFields(src, typeRestrain, IF dst.k = "ptr" THEN Elem(dst) ELSE dst, 1,
                       [st |-> "ok", err |-> "", into |-> into], parents)

\* *out = append(*out, val) once generate has returned r for element i
SliceNext(r, value, field, typeRestrain, i, out) ==
    IF r.st # "ok" THEN [st |-> r.st, err |-> r.err, out |-> out]
    ELSE generateSlice(value, field, typeRestrain, i + 1, Append(out, TMap(r.into)))

\* StructDecoder.generateSlice from element i on: one map per element of the
\* sequence found, each generated for a zero element struct with no parents
generateSlice(value, field, typeRestrain, i, out) ==
    IF value.k # "seq" THEN [st |-> "panic", err |-> "", out |-> out]
    ELSE IF i > Len(value.e) THEN [st |-> "ok", err |-> "", out |-> out]
    ELSE IF value.e[i].k # "map" THEN [st |-> "panic", err |-> "", out |-> out]
    ELSE SliceNext(DecoderGenerate(value.e[i].m, typeRestrain, Zero(field.Value.et),
                                   EmptyMap, <<>>),
                   value, field, typeRestrain, i, out)

\* ------------------------------------------------------ the calls' arguments
\* a struct of type t with every field set: strings to str, ints to MaxInt
RECURSIVE Sample(_, _), SampleFields(_, _, _)
SampleOf(decl, str) ==
    CASE decl.Kind = "string" -> VStr(str)
      [] decl.Kind = "int" -> VInt(MaxInt)
      [] decl.Kind = "bool" -> VBool(TRUE)
      [] decl.Kind = "float64" -> VFloat(MaxInt)
      [] decl.Kind = "map" -> VMap(decl.T, MapPut(<<>>, "a", IF decl.T = "float64" THEN VFloat(MaxInt) ELSE VStr(str)))
      [] decl.Kind = "struct" -> Sample(decl.T, str)
      [] decl.Kind = "ptr" -> VPtr(decl.T, Sample(decl.T, str))
      [] decl.Kind = "slice" ->
            VSlice(decl.T, <<IF decl.T = "string" THEN VStr("a")
                             ELSE IF decl.T = "float64" THEN VFloat(MaxInt)
                             ELSE IF decl.T \in PointerTypes
                             THEN VPtr(Pointee(decl.T), Sample(Pointee(decl.T), str))
                             ELSE Sample(decl.T, str)>>)
SampleFields(t, i, str) ==
    IF i = 0 THEN [x \in {} |-> VInvalid]
    ELSE LET decl == StructFields(t)[i]
             rest == SampleFields(t, i - 1, str)
         IN  [n \in DOMAIN rest \cup {decl.Name} |->
                 IF n = decl.Name THEN SampleOf(decl, str) ELSE rest[n]]
Sample(t, str) == VStruct(t, SampleFields(t, NumField(t), str))

\* the sequences over S of length 0..n
RECURSIVE SeqsUpTo(_, _)
SeqsUpTo(S, n) ==
    IF n = 0 THEN {<<>>}
    ELSE LET shorter == SeqsUpTo(S, n - 1)
         IN  shorter \cup {Append(q, x) : q \in {r \in shorter : Len(r) = n - 1}, x \in S}

\* the values a field is given: every combination for scalars and nested structs,
\* the zero and the full element for a slice of structs
RECURSIVE StructVals(_), StructValsUpTo(_, _)
FieldVals(decl) ==
    CASE decl.Kind = "string" -> {VStr(""), VStr("up")}
      [] decl.Kind = "int" -> {VInt(i) : i \in 0..MaxInt}
      [] decl.Kind = "bool" -> {VBool(FALSE), VBool(TRUE)}
      [] decl.Kind = "float64" -> {VFloat(i) : i \in 0..MaxInt}
      [] decl.Kind = "map" ->
            {VNilMap(decl.T), VMap(decl.T, <<>>),
             VMap(decl.T, MapPut(<<>>, "a", IF decl.T = "float64" THEN VFloat(MaxInt) ELSE VStr("up")))}
      [] decl.Kind = "struct" -> StructVals(decl.T)
      [] decl.Kind = "ptr" -> {VNilPtr(decl.T)} \cup {VPtr(decl.T, v) : v \in StructVals(decl.T)}
      [] decl.Kind = "slice" ->
            {VNilSlice(decl.T)} \cup
            {VSlice(decl.T, q) :
                q \in SeqsUpTo(IF decl.T = "string" THEN {VStr("a")}
                               ELSE IF decl.T = "float64" THEN {VFloat(MaxInt)}
                               ELSE IF decl.T \in PointerTypes
                               THEN {VPtr(Pointee(decl.T), Sample(Pointee(decl.T), "up"))}
                               ELSE {Zero(decl.T), Sample(decl.T, "up")}, MaxListLen)}
StructValsUpTo(t, i) ==
    IF i = 0 THEN {[x \in {} |-> VInvalid]}
    ELSE LET decl == StructFields(t)[i]
         IN  {[n \in DOMAIN rest \cup {decl.Name} |-> IF n = decl.Name THEN v ELSE rest[n]] :
                 rest \in StructValsUpTo(t, i - 1), v \in FieldVals(decl)}
StructVals(t) == {VStruct(t, f) : f \in StructValsUpTo(t, NumField(t))}

\* how the caller passes dst: a pointer to a record, a nil pointer, a record by value
DstArgs == {"ptr", "nilptr", "nonptr"}
\* the destination records: a fresh one, or one that already holds values
DstRecords(t) == {Zero(t), Sample(t, "old")}

\* ------------------------------------------------------------------- state
VARIABLES
    pc,            \* "idle", "enc" / "dec" (between Init and Run), "done"
    op,            \* "none", "Marshal", "Unmarshal"
    src,           \* the src argument
    srcBefore,     \* src when the call was made
    dst,           \* the caller's destination (a record, or a nil pointer)
    dstArg,        \* how dst is passed, one of DstArgs
    dstBefore,     \* dst when the call was made
    typeRestrain,  \* StructEncoder / StructDecoder typeRestrain
    out,           \* the tree the call has built, NoTree before
    ret,           \* "pending", "nil" (no error), an error message, or "panic"
    first,         \* the record r of the Marshal(r, &p) whose p the call reads back
    panicMsg,      \* the message of the panic when ret is "panic", else ""
    calls,         \* the calls that goroutines make at the same time, by caller
    builders       \* the StructEncoder / StructDecoder of these calls

vars == <<pc, op, src, srcBefore, dst, dstArg, dstBefore, typeRestrain, out, ret, first,
          panicMsg, calls, builders>>
\* the state of the calls made one at a time, and of the calls made at the same time
oneVars == <<pc, op, src, srcBefore, dst, dstArg, dstBefore, typeRestrain, out, ret, first,
            panicMsg>>
goVars == <<calls, builders>>

NoTree == [k |-> "none"]

\* the goroutines that call Marshal and Unmarshal at the same time
Callers == {"a", "b"}
\* a call that is not made yet: its arguments, the caller's record dst, the tree
\* out of its Run, what it returns, and whether it ran while another call did
NoCall == [pc |-> "idle", op |-> "none", src |-> VInvalid, dst |-> VInvalid,
           dstBefore |-> VInvalid, out |-> NoTree, ret |-> "pending", met |-> FALSE]
\* &StructEncoder{} / &StructDecoder{}: dst is the caller whose record it points to
NoBuilder == [src |-> VInvalid, dst |-> "", typeRestrain |-> ""]

Init ==
    /\ pc = "idle"
    /\ op = "none"
    /\ src = VInvalid
    /\ srcBefore = VInvalid
    /\ dst = VInvalid
    /\ dstArg = "ptr"
    /\ dstBefore = VInvalid
    /\ typeRestrain = ""
    /\ out = NoTree
    /\ ret = "pending"
    /\ first = VInvalid
    /\ panicMsg = ""
    /\ calls = [c \in Callers |-> NoCall]
    /\ builders = [c \in Callers |-> NoBuilder]

\* the dst argument as the callee sees it
DstValues(t, arg) == IF arg = "nilptr" THEN {VNilPtr(t)} ELSE DstRecords(t)

\* getTypeName(t): Elem() of a pointer, then Type().Name(); Type() of the zero
\* Value that Elem() of a nil pointer gives panics
getTypeName(v) ==
    LET val == IF v.k = "ptr" THEN Elem(v) ELSE v
    IN  IF val.k = "invalid" THEN Panic ELSE [st |-> "ok", name |-> TypeName(val.t)]

\* a check of dst that lets every dst through
assertAnything(arg) == arg \in DstArgs

\* assertNonNilPointer(check): TRUE when check is a non-nil pointer
assertNonNilPointer(arg) == arg = "ptr"

\* Unmarshal(src, dst) up to the end of StructDecoder.Init
DecoderInit(s, d, arg) ==
    /\ op' = "Unmarshal"
    /\ src' = s
    /\ srcBefore' = s
    /\ dst' = d
    /\ dstArg' = arg
    /\ dstBefore' = d
    /\ out' = NoTree
    /\ UNCHANGED goVars
    /\ panicMsg' = ""
    /\ IF ~assertNonNilPointer(arg)
       THEN /\ ret' = ERROR_DST_NOT_POINTER
            /\ pc' = "done"
            /\ UNCHANGED typeRestrain
       ELSE /\ typeRestrain' = getTypeName(s).name
            /\ ret' = "pending"
            /\ pc' = "dec"

\* the end of StructDecoder.Run: json.Unmarshal(outEnc, sb.dst) returned hyd
DecoderHydrated(hyd) ==
    /\ dst' = hyd.v
    /\ ret' = IF hyd.err THEN ERROR_JSON_TYPE ELSE "nil"

\* StructDecoder.Run once generate has returned gen
DecoderGenerated(gen) ==
    /\ panicMsg' = IF gen.st = "panic" THEN RUNTIME_ERROR ELSE ""
    /\ IF gen.st = "panic" THEN ret' = "panic" /\ UNCHANGED <<dst, out>>
       ELSE IF gen.st = "err" THEN ret' = gen.err /\ out' = TMap(gen.into) /\ UNCHANGED dst
       ELSE out' = TMap(gen.into) /\ DecoderHydrated(Hydrate(dst, Marshalled(TMap(gen.into))))

\* StructDecoder.Run once toMap has returned input
DecoderMapped(input) ==
    IF input.st # "ok"
    THEN ret' = "json: unsupported value" /\ UNCHANGED <<dst, out, panicMsg>>
    ELSE DecoderGenerated(DecoderGenerate(input.m, typeRestrain, dst, EmptyMap, <<>>))

\* what sb.src holds when StructDecoder.Run returns: toMap marshals it, and
\* generate reads the map made from it
DecoderSrc(s) == s

\* StructDecoder.Run
DecoderRun ==
    /\ pc = "dec"
    /\ pc' = "done"
    /\ DecoderMapped(toMap(src))
    /\ src' = DecoderSrc(src)
    /\ UNCHANGED <<op, srcBefore, dstArg, dstBefore, typeRestrain, first>>
    /\ UNCHANGED goVars

\* Marshal(src, dst) up to the end of StructEncoder.Init: no check of dst
EncoderInit(s, d, arg) ==
    /\ pc = "idle"
    /\ op' = "Marshal"
    /\ src' = s
    /\ srcBefore' = s
    /\ dst' = d
    /\ dstArg' = arg
    /\ dstBefore' = d
    /\ out' = NoTree
    /\ UNCHANGED goVars
    /\ LET name == getTypeName(d)
       IN  IF name.st = "panic"
           THEN /\ ret' = "panic"
                /\ panicMsg' = name.msg
                /\ pc' = "done"
                /\ UNCHANGED typeRestrain
           ELSE /\ typeRestrain' = name.name
                /\ ret' = "pending"
                /\ panicMsg' = ""
                /\ pc' = "enc"

\* the end of StructEncoder.Run: json.Unmarshal(outEnc, &mb.dst) fills the
\* caller's record when mb.dst holds a pointer to it, and otherwise replaces
\* mb.dst itself and returns nil
EncoderHydrated(hyd) ==
    IF dstArg = "ptr"
    THEN /\ dst' = hyd.v
         /\ ret' = IF hyd.err THEN ERROR_JSON_TYPE ELSE "nil"
    ELSE ret' = "nil" /\ UNCHANGED dst

\* StructEncoder.Run once generate has returned gen
EncoderGenerated(gen) ==
    /\ panicMsg' = IF gen.st = "panic" THEN gen.msg ELSE ""
    /\ IF gen.st = "panic" THEN ret' = "panic" /\ UNCHANGED <<dst, out>>
       ELSE IF gen.st = "err" THEN ret' = gen.err /\ out' = TMap(gen.into) /\ UNCHANGED dst
       ELSE out' = TMap(gen.into) /\ EncoderHydrated(Hydrate(dst, TMap(gen.into)))

\* a generate that clears the record it has read
EncoderSrcCleared(s) == Zero(s.t)
\* what mb.src holds when StructEncoder.Run returns: generate and getFieldValue
\* read its fields through reflect and set none
EncoderSrc(s) == s

\* StructEncoder.Run
EncoderRun ==
    /\ pc = "enc"
    /\ pc' = "done"
    /\ EncoderGenerated(EncoderGenerate(src, EmptyMap, typeRestrain))
    /\ src' = EncoderSrc(src)
    /\ UNCHANGED <<op, srcBefore, dstArg, dstBefore, typeRestrain, first>>
    /\ UNCHANGED goVars

\* the types a call can be made with: calls are made one at a time
Callable(types) == IF pc = "idle" THEN types ELSE {}

\* a caller calls Unmarshal(src, dst), src one of the peers' records
CallUnmarshal ==
    \E t \in Callable(PeerTypes), dt \in AnnotatedTypes, arg \in DstArgs :
        \E s \in StructVals(t), d \in DstValues(dt, arg) :
            DecoderInit(s, d, arg) /\ UNCHANGED first

\* a caller whose Marshal(r, &p) has returned nil calls Unmarshal(p, &r2), r2 a
\* fresh record of the type of r
CallUnmarshalBack ==
    /\ pc = "done" /\ op = "Marshal" /\ ret = "nil" /\ dstArg = "ptr"
    /\ first' = src
    /\ DecoderInit(dst, Zero(src.t), "ptr")

\* a caller calls Marshal(src, dst), src an annotated record
CallMarshal ==
    \E t \in Callable(AnnotatedTypes), dt \in PeerTypes, arg \in DstArgs :
        \E s \in StructVals(t), d \in DstValues(dt, arg) :
            EncoderInit(s, d, arg) /\ UNCHANGED first

Next ==
    \/ CallUnmarshal
    \/ DecoderRun
    \/ CallMarshal
    \/ EncoderRun
    \/ CallUnmarshalBack

Spec == Init /\ [][Next]_vars

\* ---------------------------------------------------------- concurrent calls
\* the calls the goroutines make: Marshal of an annotated record into a peer's,
\* Unmarshal of a peer's record into an annotated one, dst a pointer to a record
\* of the caller's own
GoInputs ==
    {[op |-> "Marshal", src |-> s, dst |-> d] :
        s \in {Sample("SystemStructWithMultipleDestination", "up"), Sample("SystemStruct", "up")},
        d \in {Zero("APIObject"), Sample("SecondaryAPIObject", "old")}}
    \cup
    {[op |-> "Unmarshal", src |-> s, dst |-> d] :
        s \in {Sample("APIObject", "up"), Sample("SecondaryAPIObject", "up")},
        d \in {Zero("SystemStructWithMultipleDestination"), Sample("SystemStruct", "old")}}

\* a call between its Init and its return
Busy(call) == call.pc \in {"init", "run", "hydrate"}
\* the call of c takes a step: it has met another call if one is under way
Stepped(call, c) == [call EXCEPT !.met = @ \/ \E o \in Callers \ {c} : Busy(calls[o])]

\* one builder that the package keeps for every call
BuilderOfPackage(c) == "a"
\* encoder := &StructEncoder{} / decoder := &StructDecoder{}: a builder of the call's own
BuilderOf(c) == c

\* a goroutine calls Marshal(src, &dst) or Unmarshal(src, &dst)
GoCall(c) ==
    /\ calls[c].pc = "idle"
    /\ \E in \in GoInputs :
           calls' = [calls EXCEPT ![c] = [NoCall EXCEPT !.pc = "init", !.op = in.op, !.src = in.src,
                                                        !.dst = in.dst, !.dstBefore = in.dst]]
    /\ UNCHANGED builders
    /\ UNCHANGED oneVars

\* mb.typeRestrain = getTypeName(dst) / sb.typeRestrain = getTypeName(sb.src)
GoRestrain(call) ==
    IF call.op = "Marshal" THEN getTypeName(call.dst).name ELSE getTypeName(call.src).name

\* StructEncoder.Init / StructDecoder.Init of the call of c
GoInit(c) ==
    /\ calls[c].pc = "init"
    /\ builders' = [builders EXCEPT ![BuilderOf(c)] =
                        [src |-> calls[c].src, dst |-> c, typeRestrain |-> GoRestrain(calls[c])]]
    /\ calls' = [calls EXCEPT ![c] = [Stepped(@, c) EXCEPT !.pc = "run"]]
    /\ UNCHANGED oneVars

\* mb.generate(mb.src, out) / sb.generate(input, sb.typeRestrain, reflectedDst, out)
GoGenerate(op_, b) ==
    IF op_ = "Marshal" THEN EncoderGenerate(b.src, EmptyMap, b.typeRestrain)
    ELSE DecoderGenerate(toMap(b.src).m, b.typeRestrain, calls[b.dst].dst, EmptyMap, <<>>)
\* Run once generate has returned gen
GoGenerated(call, gen) ==
    IF gen.st = "panic" THEN [call EXCEPT !.pc = "done", !.ret = "panic"]
    ELSE IF gen.st = "err" THEN [call EXCEPT !.pc = "done", !.ret = gen.err, !.out = TMap(gen.into)]
    ELSE [call EXCEPT !.pc = "hydrate", !.out = TMap(gen.into)]

\* Run of the call of c up to the end of generate
GoRun(c) ==
    /\ calls[c].pc = "run"
    /\ calls' = [calls EXCEPT ![c] =
                     GoGenerated(Stepped(@, c), GoGenerate(@.op, builders[BuilderOf(c)]))]
    /\ UNCHANGED builders
    /\ UNCHANGED oneVars

\* json.Marshal(out), the bytes of the tree
GoBytes(call) == IF call.op = "Marshal" THEN call.out ELSE Marshalled(call.out)
\* the two calls' records once json.Unmarshal has returned hyd for the record of to
GoHydrated(c, to, hyd) ==
    [calls EXCEPT ![to].dst = hyd.v,
                  ![c].ret = IF hyd.err THEN ERROR_JSON_TYPE ELSE "nil",
                  ![c].pc = "done",
                  ![c].met = @ \/ \E o \in Callers \ {c} : Busy(calls[o])]

\* the end of Run of the call of c: json.Unmarshal(outEnc, dst of the builder)
GoHydrate(c) ==
    /\ calls[c].pc = "hydrate"
    /\ calls' = GoHydrated(c, builders[BuilderOf(c)].dst,
                           Hydrate(calls[builders[BuilderOf(c)].dst].dst, GoBytes(calls[c])))
    /\ UNCHANGED builders
    /\ UNCHANGED oneVars

GoNext ==
    \/ \E c \in Callers : GoCall(c)
    \/ \E c \in Callers : GoInit(c)
    \/ \E c \in Callers : GoRun(c)
    \/ \E c \in Callers : GoHydrate(c)

SpecGo == Init /\ [][GoNext]_vars

\* ------------------------------------------------------------- properties
\* a call has been made and has returned (or has panicked)
Returned == pc = "done"

\* C1: Unmarshal with a dst that is a nil pointer or not a pointer returns
\* "dst must be a non-nil pointer" from Init, with no tree built and dst as it was
DecodeRejectsBadDst ==
    (op = "Unmarshal" /\ dstArg # "ptr") =>
        /\ Returned
        /\ ret = ERROR_DST_NOT_POINTER
        /\ out = NoTree
        /\ dst = dstBefore
\* Unmarshal of a record with values into a nil pointer has returned
DecodeRejectsBadDstWitness ==
    /\ op = "Unmarshal" /\ dstArg = "nilptr" /\ Returned
    /\ src = Sample("APIObject", "up")
    /\ ret = ERROR_DST_NOT_POINTER

\* C2: Marshal with a dst that is a nil pointer or not a pointer returns an
\* error: it never panics and never returns nil with dst not populated
EncodeRejectsBadDst ==
    (op = "Marshal" /\ Returned) =>
        /\ ret # "panic"
        /\ dstArg # "ptr" => ret \notin {"nil", "panic"}

\* the clauses of a field's annotation and the type names they list
Clauses(decl) == IF decl.sm = <<>> THEN <<>> ELSE parseTag(decl).tag.Opts.MatchTypes
ListedNames(decl) == {Clauses(decl)[i].Name : i \in 1..Len(Clauses(decl))}
\* the annotation lists type clauses and name is none of the listed names
GatedOut(decl, name) == Clauses(decl) # <<>> /\ name \notin ListedNames(decl)
\* the record v with field name set to x
WithField(v, name, x) == [v EXCEPT !.f[name] = x]
\* the fields of the record type t, by position
FieldsOf(t) == {StructFields(t)[i] : i \in 1..NumField(t)}

\* C3: a field whose type clauses list none of the names equal to the type
\* restraint (the empty name included) is skipped: Encode builds the same tree
\* whatever the field holds, Decode leaves the destination field as it was
TypeGatingSkips ==
    /\ (op = "Marshal" /\ Returned /\ out # NoTree) =>
          \A decl \in FieldsOf(src.t) :
              GatedOut(decl, typeRestrain) =>
                  \A x \in FieldVals(decl) :
                      EncoderGenerate(WithField(src, decl.Name, x), EmptyMap, typeRestrain).into = out.m
    /\ (op = "Unmarshal" /\ Returned /\ dstArg = "ptr") =>
          \A decl \in FieldsOf(dst.t) :
              GatedOut(decl, typeRestrain) => dst.f[decl.Name] = dstBefore.f[decl.Name]

\* the primary path of an annotated field, and whether it is the single "+"
PrimaryPath(decl) == Split(Head(Split(decl.sm, ",")), ".")
PlusPath(decl) == decl.sm # <<>> /\ PrimaryPath(decl) = << <<MULTI_TYPE_NAME>> >>
\* the first clause of the annotation that lists name
ClauseFor(decl, name) ==
    Clauses(decl)[CHOOSE i \in 1..Len(Clauses(decl)) :
                     /\ Clauses(decl)[i].Name = name
                     /\ \A j \in 1..(i - 1) : Clauses(decl)[j].Name # name]
\* name matches a clause that carries an override path
Overridden(decl, name) == name \in ListedNames(decl) /\ ClauseFor(decl, name).Path # <<>>
\* what a tree holds at a path (TNil when absent or when the path cannot be walked)
At(m, path) ==
    IF GetValueFromMap(m, path).st = "ok" THEN Marshalled(GetValueFromMap(m, path).v) ELSE TNil
\* the record an Encode reads its annotations from, and a Decode
Encoded == op = "Marshal" /\ Returned /\ ret = "nil"
Decoded == op = "Unmarshal" /\ Returned /\ ret = "nil"

\* C4: a field whose primary path is "+" and whose annotation has a clause with
\* an override path for the type restraint is not skipped and uses that path:
\* Encode writes its value there, Decode reads it from there
PerTypePathUsed ==
    /\ (op = "Marshal" /\ Returned /\ ret # "panic") =>
          \A decl \in FieldsOf(src.t) :
              (PlusPath(decl) /\ Overridden(decl, typeRestrain)) =>
                  /\ ret = "nil"
                  /\ ~IsZero(src.f[decl.Name]) =>
                        At(out.m, ClauseFor(decl, typeRestrain).Path) = JsonOf(src.f[decl.Name])
    /\ (op = "Unmarshal" /\ Returned /\ dstArg = "ptr" /\ ret # "panic") =>
          \A decl \in FieldsOf(dst.t) :
              (PlusPath(decl) /\ Overridden(decl, typeRestrain)) =>
                  /\ ret = "nil"
                  /\ JsonOf(dst.f[decl.Name]) = At(JsonOf(src).m, ClauseFor(decl, typeRestrain).Path)
\* an Encode towards SecondaryAPIObject has written the "+" field Flag at configflag
PerTypePathUsedWitness ==
    /\ Encoded /\ typeRestrain = "SecondaryAPIObject"
    /\ src.t = "SystemStructWithMultipleDestination"
    /\ src.f["Flag"] = VBool(TRUE)
    /\ At(out.m, << <<"configflag">> >>) = TBool(TRUE)
    /\ dstArg = "ptr" /\ dst.f["ConfigFlag"] = VBool(TRUE)

\* the annotation has no clauses, or the clause for name has no override path
NotOverridden(decl, name) ==
    /\ decl.sm # <<>>
    /\ \/ Clauses(decl) = <<>>
       \/ (name \in ListedNames(decl) /\ ClauseFor(decl, name).Path = <<>>)
\* fields whose value is written or read as it is, not generated
Plain(decl) == decl.Kind \in {"string", "int", "bool"} \/ (decl.Kind = "slice" /\ decl.T = "string")

\* C5: a field with no type clauses, or whose clause for the type restraint has
\* no override path, is not skipped and uses its primary path, whatever the
\* type restraint: Encode writes its value there, Decode reads it from there
PrimaryPathUsed ==
    /\ Encoded =>
          \A decl \in FieldsOf(src.t) :
              (NotOverridden(decl, typeRestrain) /\ Plain(decl) /\ ~IsZero(src.f[decl.Name])) =>
                  At(out.m, PrimaryPath(decl)) = JsonOf(src.f[decl.Name])
    /\ (Decoded /\ dstArg = "ptr") =>
          \A decl \in FieldsOf(dst.t) :
              (/\ NotOverridden(decl, typeRestrain) /\ Plain(decl)
               /\ At(JsonOf(src).m, PrimaryPath(decl)) # TNil) =>
                  JsonOf(dst.f[decl.Name]) = At(JsonOf(src).m, PrimaryPath(decl))
\* a Decode from APIObject has read Name, whose clause for APIObject has no
\* path, from its primary path
PrimaryPathUsedWitness ==
    /\ Decoded /\ typeRestrain = "APIObject"
    /\ dst.t = "SystemStructWithMultipleDestination"
    /\ src.f["Metadata"].f["NameField"] = VStr("up")
    /\ dstBefore.f["Name"] = VStr("")
    /\ dst.f["Name"] = VStr("up")

\* some clause carries an override path while the primary path is not "+"
BadAnnotation(decl) ==
    /\ decl.sm # <<>>
    /\ ~PlusPath(decl)
    /\ \E i \in 1..Len(Clauses(decl)) : Clauses(decl)[i].Path # <<>>

\* C6: a call whose annotated record has a field with an override path in some
\* clause and a primary path other than "+" returns the configuration error,
\* whatever the type restraint and the field's value
BadAnnotationAlwaysFails ==
    /\ (op = "Marshal" /\ Returned /\ ret # "panic") =>
          \A decl \in FieldsOf(src.t) :
              BadAnnotation(decl) => ret = ERROR_PER_TYPE_PATH_IS_NOT_VALID
    /\ (op = "Unmarshal" /\ Returned /\ dstArg = "ptr" /\ ret # "panic") =>
          \A decl \in FieldsOf(dst.t) :
              BadAnnotation(decl) => ret = ERROR_PER_TYPE_PATH_IS_NOT_VALID

\* Field.Init returns the configuration error for some field that an Encode of
\* the record v reaches: a field of v, of a nested or spliced struct that is not
\* empty, or of an element of a slice of structs
RECURSIVE EncodeMeetsError(_, _)
EncodeMeetsErrorAt(f, restrain) ==
    \/ f.err # ""
    \/ /\ ~f.Skip /\ ~IsZero(f.Value)
       /\ \/ f.Value.k = "struct" /\ EncodeMeetsError(f.Value, restrain)
          \/ /\ IsStructSlice(f)
             /\ \E j \in 1..Len(f.Value.e) : EncodeMeetsError(f.Value.e[j], restrain)
EncodeMeetsError(v, restrain) ==
    \E i \in 1..NumField(v.t) : EncodeMeetsErrorAt(FieldInit(i, v, restrain), restrain)
\* the same for the fields a Decode into the record v reaches: a field of v or
\* of a nested or spliced struct
RECURSIVE DecodeMeetsError(_, _)
DecodeMeetsErrorAt(f, restrain) ==
    \/ f.err # ""
    \/ ~f.Skip /\ f.Value.k = "struct" /\ DecodeMeetsError(f.Value, restrain)
DecodeMeetsError(v, restrain) ==
    \E i \in 1..NumField(v.t) : DecodeMeetsErrorAt(FieldInit(i, v, restrain), restrain)

\* C7: when the resolution of a field reached during a call raises the
\* configuration error, the call returns it and dst is as it was before
ConfigErrorAborts ==
    /\ (op = "Marshal" /\ Returned /\ ret # "panic" /\ EncodeMeetsError(src, typeRestrain)) =>
          ret = ERROR_PER_TYPE_PATH_IS_NOT_VALID /\ dst = dstBefore
    /\ (/\ op = "Unmarshal" /\ Returned /\ dstArg = "ptr" /\ ret # "panic"
        /\ DecodeMeetsError(dst, typeRestrain)) =>
          ret = ERROR_PER_TYPE_PATH_IS_NOT_VALID /\ dst = dstBefore

\* C8: a field without the sm tag takes no part in either direction: the tree
\* of an Encode is the one built with the field empty and has no key of the
\* field's name, a Decode builds no entry for it and leaves it as it was, and
\* neither returns an error for it
UntaggedExcluded ==
    /\ (op = "Marshal" /\ Returned /\ ret # "panic") =>
          \A decl \in FieldsOf(src.t) :
              decl.sm = <<>> =>
                  /\ ret = "nil"
                  /\ decl.Name \notin DOMAIN out.m
                  /\ out.m = EncoderGenerate(WithField(src, decl.Name, ZeroOf(decl)),
                                             EmptyMap, typeRestrain).into
    /\ (op = "Unmarshal" /\ Returned /\ dstArg = "ptr" /\ ret # "panic") =>
          \A decl \in FieldsOf(dst.t) :
              decl.sm = <<>> =>
                  /\ ret = "nil"
                  /\ decl.Name \notin DOMAIN out.m
                  /\ dst.f[decl.Name] = dstBefore.f[decl.Name]
\* an Encode of a record whose untagged Name holds a value has built a tree
\* with the tagged Flag only
UntaggedExcludedWitness ==
    /\ Encoded /\ src.t = "anon.Untagged"
    /\ src.f["Name"] = VStr("up") /\ src.f["Flag"] = VBool(TRUE)
    /\ out.m = MapPut(EmptyMap, "configflag", TBool(TRUE))

\* the paths that the fields of v holding a value write into the map v is
\* encoded into, those of a spliced struct included
RECURSIVE WrittenPaths(_, _)
WrittenBy(f, restrain) ==
    IF f.err # "" \/ f.Skip \/ IsZero(f.Value) THEN {}
    ELSE IF f.Value.k = "struct" /\ DissmisNesting(f.Path) THEN WrittenPaths(f.Value, restrain)
    ELSE {f.Path}
WrittenPaths(v, restrain) ==
    UNION {WrittenBy(FieldInit(i, v, restrain), restrain) : i \in 1..NumField(v.t)}

\* every empty annotated field of v, and of the structs nested in v, has its
\* path absent from m, the map the fields of v are written into, unless the
\* path is one of written
RECURSIVE OmittedIn(_, _, _, _)
OmittedAt(f, m, restrain, written) ==
    (f.err = "" /\ ~f.Skip) =>
        IF IsZero(f.Value) THEN At(m, f.Path) = TNil \/ f.Path \in written
        ELSE IF f.Value.k # "struct" THEN TRUE
        ELSE IF DissmisNesting(f.Path) THEN OmittedIn(f.Value, m, restrain, written)
        ELSE At(m, f.Path).k = "map" =>
                OmittedIn(f.Value, At(m, f.Path).m, restrain, WrittenPaths(f.Value, restrain))
OmittedIn(v, m, restrain, written) ==
    \A i \in 1..NumField(v.t) : OmittedAt(FieldInit(i, v, restrain), m, restrain, written)

\* a tree holds no empty string, zero number, false or nil
RECURSIVE NoEmptyLeaf(_)
NoEmptyLeaf(tv) ==
    CASE tv.k = "map" -> \A key \in DOMAIN tv.m : NoEmptyLeaf(tv.m[key])
      [] tv.k = "seq" -> \A j \in 1..Len(tv.e) : NoEmptyLeaf(tv.e[j])
      [] tv.k = "str" -> tv.s # ""
      [] tv.k = "num" -> tv.i # 0
      [] tv.k = "bool" -> tv.b
      [] OTHER -> FALSE

\* C9: in the tree an Encode builds, the path of every annotated field that
\* holds its zero value (at top level or in a nested struct) is absent unless
\* another field holding a value writes that path; no zero value is in the tree
EmptyOmitted ==
    (op = "Marshal" /\ Returned /\ out # NoTree) =>
        /\ OmittedIn(src, out.m, typeRestrain, WrittenPaths(src, typeRestrain))
        /\ NoEmptyLeaf(out)
\* an Encode of a record whose only value is Flag has built metadata.flag alone
EmptyOmittedWitness ==
    /\ Encoded /\ src.t = "SystemStruct"
    /\ src.f["Name"] = VStr("") /\ src.f["Count"] = VInt(0) /\ src.f["Flag"] = VBool(TRUE)
    /\ out.m = MapPut(EmptyMap, "metadata", TMap(MapPut(EmptyMap, "flag", TBool(TRUE))))

\* the path an annotated field resolves to for a type restraint
EffectivePath(decl, name) ==
    IF Overridden(decl, name) THEN ClauseFor(decl, name).Path ELSE PrimaryPath(decl)
\* a struct field annotated "->"
Spliced(decl) == decl.Kind = "struct" /\ decl.sm = <<DISMISS_NESTED>>
\* a child field that takes part in the conversion: annotated, not gated out for
\* the type restraint, well annotated, and holding a value
TakesPart(cdecl, child, name) ==
    /\ cdecl.sm # <<>>
    /\ ~GatedOut(cdecl, name)
    /\ ~BadAnnotation(cdecl)
    /\ ~IsZero(child.f[cdecl.Name])

\* C10: for a struct field annotated "->", the tree of an Encode has each child
\* field that takes part at the child's own path in the parent's map, and has
\* no key of the struct field's name and no key "->"
SplicedIntoParent ==
    (op = "Marshal" /\ Returned /\ ret = "nil") =>
        \A decl \in FieldsOf(src.t) :
            (Spliced(decl) /\ ~IsZero(src.f[decl.Name])) =>
                /\ decl.Name \notin DOMAIN out.m
                /\ DISMISS_NESTED \notin DOMAIN out.m
                /\ \A cdecl \in FieldsOf(decl.T) :
                      (Plain(cdecl) /\ TakesPart(cdecl, src.f[decl.Name], typeRestrain)) =>
                          At(out.m, EffectivePath(cdecl, typeRestrain))
                              = JsonOf(src.f[decl.Name].f[cdecl.Name])

\* the children of the "->" struct fields of the record v, and of the structs
\* nested in v at any depth, that take part in a Decode hold what the source
\* tree has at their own paths, whenever it has something there
RECURSIVE SplicedReadIn(_, _, _)
SplicedChildRead(cdecl, child, tree, name) ==
    (/\ Plain(cdecl) /\ cdecl.sm # <<>> /\ ~GatedOut(cdecl, name) /\ ~BadAnnotation(cdecl)
     /\ At(tree, EffectivePath(cdecl, name)) # TNil) =>
        JsonOf(child.f[cdecl.Name]) = At(tree, EffectivePath(cdecl, name))
SplicedReadAt(decl, v, tree, name) ==
    (decl.Kind = "struct" /\ decl.sm # <<>> /\ ~GatedOut(decl, name)) =>
        /\ Spliced(decl) =>
              \A cdecl \in FieldsOf(decl.T) : SplicedChildRead(cdecl, v.f[decl.Name], tree, name)
        /\ SplicedReadIn(v.f[decl.Name], tree, name)
SplicedReadIn(v, tree, name) ==
    \A decl \in FieldsOf(v.t) : SplicedReadAt(decl, v, tree, name)

\* C11: after a Decode, the children of a struct field annotated "->", at any
\* nesting depth of the destination, hold what the source tree has at their
\* own declared paths: no prefix is added for the "->" field
SplicedReadAtOwnPath ==
    (Decoded /\ dstArg = "ptr") => SplicedReadIn(dst, JsonOf(src).m, typeRestrain)
\* the same for the "->" fields that the destination record itself declares
SplicedReadAtTopLevel ==
    (Decoded /\ dstArg = "ptr") =>
        \A decl \in FieldsOf(dst.t) :
            (Spliced(decl) /\ ~GatedOut(decl, typeRestrain)) =>
                \A cdecl \in FieldsOf(decl.T) :
                    SplicedChildRead(cdecl, dst.f[decl.Name], JsonOf(src).m, typeRestrain)

\* a field that a Decode resolves: annotated, not gated out for the type
\* restraint and well annotated
Resolved(decl, name) == decl.sm # <<>> /\ ~GatedOut(decl, name) /\ ~BadAnnotation(decl)
\* a struct field that passes its path on to its children
Nesting(decl, name) == decl.Kind = "struct" /\ Resolved(decl, name) /\ ~Spliced(decl)

\* what a map built by a Decode holds under a name: TNil when it has no such
\* key or holds a nil map there
Held(into, name) == Marshalled(MapGet(into, name))

\* into is the map a Decode builds for a struct whose ancestors' paths make up
\* prefix: each scalar child is there under its declared name with what tree
\* holds at prefix followed by the child's path, and holds nothing when tree
\* holds nothing; each nesting child has a map under its declared name, built
\* the same way for the prefix extended by the child's path
RECURSIVE InheritedIn(_, _, _, _, _)
InheritedAt(decl, into, tree, prefix, name) ==
    IF Plain(decl) /\ Resolved(decl, name)
    THEN Held(into, decl.Name) = At(tree, prefix \o EffectivePath(decl, name))
    ELSE Nesting(decl, name) =>
            /\ decl.Name \in DOMAIN into
            /\ into[decl.Name].k = "map"
            /\ InheritedIn(decl.T, into[decl.Name].m, tree,
                           prefix \o EffectivePath(decl, name), name)
InheritedIn(t, into, tree, prefix, name) ==
    \A decl \in FieldsOf(t) : InheritedAt(decl, into, tree, prefix, name)

\* C12: after a Decode, for every struct field of the destination that does not
\* dismiss nesting, the map stored under the field's declared name holds each
\* child, at every depth, under the child's declared name with the value the
\* source tree has at the concatenation of the ancestors' paths and its own
PathInherited ==
    (Decoded /\ dstArg = "ptr") =>
        \A decl \in FieldsOf(dst.t) :
            Nesting(decl, typeRestrain) =>
                /\ decl.Name \in DOMAIN out.m
                /\ out.m[decl.Name].k = "map"
                /\ InheritedIn(decl.T, out.m[decl.Name].m, JsonOf(src).m,
                               EffectivePath(decl, typeRestrain), typeRestrain)
\* a Decode into SystemStruct has read Nested.DeeepNested.Direction, two
\* structs deep, at config.somelist[0].config.deepnested.direction2
PathInheritedWitness ==
    /\ Decoded /\ dstArg = "ptr" /\ dst.t = "SystemStruct"
    /\ At(JsonOf(src).m, << <<"config">>, <<"somelist", "[", "0", "]">>, <<"config">>,
                            <<"deepnested">>, <<"direction2">> >>) = TStr("up")
    /\ out.m["Nested"].m["DeeepNested"].m["Direction"] = TStr("up")
    /\ out.m["Nested"].m["Direction"] = TStr("up")
    /\ dst.f["Nested"].f["DeeepNested"].f["Direction"] = VStr("up")

\* m, the tree an Encode builds, has each field of the struct v that takes
\* part, and of the structs nested in v, at prefix followed by the field's path
RECURSIVE PlacedIn(_, _, _, _)
PlacedAt(decl, v, m, prefix, name) ==
    IF Plain(decl)
    THEN TakesPart(decl, v, name) =>
            At(m, prefix \o EffectivePath(decl, name)) = JsonOf(v.f[decl.Name])
    ELSE Nesting(decl, name) =>
            PlacedIn(v.f[decl.Name], m, prefix \o EffectivePath(decl, name), name)
PlacedIn(v, m, prefix, name) ==
    \A decl \in FieldsOf(v.t) : PlacedAt(decl, v, m, prefix, name)
\* a pointer-to-struct field that a call resolves
PointerField(decl, name) == decl.Kind = "ptr" /\ Resolved(decl, name)

\* C13: a pointer-to-struct field is handled as a struct field: an Encode
\* places the children of the struct it points to by their own annotations
\* under the field's path, and a Decode builds for it a map of its children,
\* each resolved by its own annotation under the field's path, whether the
\* destination's pointer was nil before the call or not
PointerHandledAsStruct ==
    /\ Encoded =>
          \A decl \in FieldsOf(src.t) :
              (PointerField(decl, typeRestrain) /\ ~src.f[decl.Name].isnil) =>
                  PlacedIn(src.f[decl.Name].e, out.m, EffectivePath(decl, typeRestrain),
                           typeRestrain)
    /\ (Decoded /\ dstArg = "ptr") =>
          \A decl \in FieldsOf(dst.t) :
              PointerField(decl, typeRestrain) =>
                  /\ decl.Name \in DOMAIN out.m
                  /\ out.m[decl.Name].k = "map"
                  /\ InheritedIn(decl.T, out.m[decl.Name].m, JsonOf(src).m,
                                 EffectivePath(decl, typeRestrain), typeRestrain)
\* the same for the pointer fields that point to a struct when the call is made
PointerToStructHandledAsStruct ==
    /\ Encoded =>
          \A decl \in FieldsOf(src.t) :
              (PointerField(decl, typeRestrain) /\ ~src.f[decl.Name].isnil) =>
                  PlacedIn(src.f[decl.Name].e, out.m, EffectivePath(decl, typeRestrain),
                           typeRestrain)
    /\ (Decoded /\ dstArg = "ptr") =>
          \A decl \in FieldsOf(dst.t) :
              (PointerField(decl, typeRestrain) /\ ~dstBefore.f[decl.Name].isnil) =>
                  /\ decl.Name \in DOMAIN out.m
                  /\ out.m[decl.Name].k = "map"
                  /\ InheritedIn(decl.T, out.m[decl.Name].m, JsonOf(src).m,
                                 EffectivePath(decl, typeRestrain), typeRestrain)

\* the annotation of a field lets the name through (no clauses, a clause that
\* lists the name, or the empty name)
Passes(decl, name) == decl.sm # <<>> /\ findTypeMatch(parseTag(decl).tag, name).Matches
\* a scalar field with type clauses
Gated(decl) == Plain(decl) /\ Clauses(decl) # <<>> /\ ~BadAnnotation(decl)
\* a field whose values are structs, a slice of them included
StructSlice(decl) == decl.Kind = "slice" /\ decl.T \notin {"string", "float64"} \cup PointerTypes
\* the tree m, built by an Encode of a struct one of whose fields holds child,
\* has a field of child with type clauses at its path under prefix when its
\* annotation lets name through, and has nothing there when it does not
EncodeGatedBy(cdecl, child, m, prefix, name) ==
    (Gated(cdecl) /\ ~IsZero(child.f[cdecl.Name])) =>
        IF Passes(cdecl, name)
        THEN At(m, prefix \o EffectivePath(cdecl, name)) = JsonOf(child.f[cdecl.Name])
        ELSE At(m, prefix \o PrimaryPath(cdecl)) = TNil
\* the map into, built by a Decode for a struct, has a field with type clauses
\* under its name, with what tree holds at its path under prefix, when its
\* annotation lets name through, and has no key of its name when it does not
DecodeGatedBy(cdecl, into, tree, prefix, name) ==
    Gated(cdecl) =>
        IF Passes(cdecl, name)
        THEN Held(into, cdecl.Name) = At(tree, prefix \o EffectivePath(cdecl, name))
        ELSE cdecl.Name \notin DOMAIN into
\* the prefix a struct field passes on when it is declared by the record itself
PrefixOf(decl, name) == IF Spliced(decl) THEN <<>> ELSE EffectivePath(decl, name)

\* C14: the fields of nested structs, of structs spliced with "->" and of the
\* elements of a slice of structs are gated and resolved by the type restraint
\* of the call, the name of the root opposite record: a field whose clauses
\* list that name is written or read, one whose clauses list other names (the
\* name of its own struct included) is not
GatedByRootName ==
    /\ (Encoded /\ ~EncodeMeetsError(src, typeRestrain)) =>
          \A decl \in FieldsOf(src.t) :
              (Passes(decl, typeRestrain) /\ ~IsZero(src.f[decl.Name])) =>
                  /\ decl.Kind = "struct" =>
                        \A cdecl \in FieldsOf(decl.T) :
                            EncodeGatedBy(cdecl, src.f[decl.Name], out.m,
                                          PrefixOf(decl, typeRestrain), typeRestrain)
                  /\ StructSlice(decl) =>
                        /\ At(out.m, EffectivePath(decl, typeRestrain)).k = "seq"
                        /\ Len(At(out.m, EffectivePath(decl, typeRestrain)).e)
                              = Len(src.f[decl.Name].e)
                        /\ \A j \in 1..Len(src.f[decl.Name].e), cdecl \in FieldsOf(decl.T) :
                              EncodeGatedBy(cdecl, src.f[decl.Name].e[j],
                                            At(out.m, EffectivePath(decl, typeRestrain)).e[j].m,
                                            <<>>, typeRestrain)
    /\ (Decoded /\ dstArg = "ptr") =>
          \A decl \in FieldsOf(dst.t) :
              Passes(decl, typeRestrain) =>
                  /\ decl.Kind = "struct" =>
                        \A cdecl \in FieldsOf(decl.T) :
                            DecodeGatedBy(cdecl, out.m[decl.Name].m, JsonOf(src).m,
                                          PrefixOf(decl, typeRestrain), typeRestrain)
                  /\ (StructSlice(decl) /\ decl.Name \in DOMAIN out.m) =>
                        \A j \in 1..Len(out.m[decl.Name].e), cdecl \in FieldsOf(decl.T) :
                            DecodeGatedBy(cdecl, out.m[decl.Name].e[j].m,
                                          At(JsonOf(src).m, EffectivePath(decl, typeRestrain)).e[j].m,
                                          <<>>, typeRestrain)
\* an Encode towards APIObject of a record whose nested struct and slice
\* element have every field set has written the fields that list APIObject only
GatedByRootNameWitness ==
    /\ Encoded /\ typeRestrain = "APIObject" /\ src = Sample("GatedDeep", "up")
    /\ out.m = MapPut(MapPut(EmptyMap,
                  "metadata", TMap(MapPut(EmptyMap, "namefield", TStr("up")))),
                  "config", TMap(MapPut(EmptyMap, "somelist",
                      TSeq(<<TMap(MapPut(EmptyMap, "config",
                                  TMap(MapPut(EmptyMap, "direction", TStr("up")))))>>))))
\* a Decode from APIObject has read, for the nested struct and the slice
\* element, the fields that list APIObject and not those that list GatedChild
\* or GatedListed, though the source holds values at their paths
GatedByRootNameDecoded ==
    /\ Decoded /\ dstArg = "ptr" /\ typeRestrain = "APIObject" /\ dst.t = "GatedDeep"
    /\ src = Sample("APIObject", "up")
    /\ out.m = MapPut(MapPut(EmptyMap,
                  "Inner", TMap(MapPut(EmptyMap, "Name", TStr("up")))),
                  "Items", TSeq(<<TMap(MapPut(EmptyMap, "Direction", TStr("up")))>>))

\* a Marshal(r, &p) followed by Unmarshal(p, &r2) has returned nil twice: first
\* is r, src is p and dst is r2
RoundTripped == first # VInvalid /\ Decoded

\* r2 equals r on the fields of r that hold a value and whose path tree, the
\* peer's tree, has under prefix; nested structs, structs behind pointers and
\* the elements of slices of structs are compared field by field
RECURSIVE SameOn(_, _, _, _, _)
SameAt(decl, r, r2, tree, prefix, name) ==
    (/\ Passes(decl, name) /\ ~BadAnnotation(decl) /\ ~IsZero(r.f[decl.Name])
     /\ (Spliced(decl) \/ At(tree, prefix \o EffectivePath(decl, name)) # TNil)) =>
        CASE Plain(decl) -> r2.f[decl.Name] = r.f[decl.Name]
          [] decl.Kind = "struct" ->
                SameOn(r.f[decl.Name], r2.f[decl.Name], tree,
                       prefix \o PrefixOf(decl, name), name)
          [] decl.Kind = "ptr" ->
                /\ ~r2.f[decl.Name].isnil
                /\ SameOn(r.f[decl.Name].e, r2.f[decl.Name].e, tree,
                          prefix \o EffectivePath(decl, name), name)
          [] OTHER ->
                /\ Len(r2.f[decl.Name].e) = Len(r.f[decl.Name].e)
                /\ \A j \in 1..Len(r.f[decl.Name].e) :
                      At(tree, prefix \o EffectivePath(decl, name)).e[j].k = "map" =>
                          SameOn(r.f[decl.Name].e[j], r2.f[decl.Name].e[j],
                                 At(tree, prefix \o EffectivePath(decl, name)).e[j].m,
                                 <<>>, name)
SameOn(r, r2, tree, prefix, name) ==
    \A decl \in FieldsOf(r.t) : SameAt(decl, r, r2, tree, prefix, name)

\* C15: Encode(r, &p) followed by Decode(p, &r2) gives r2 equal to r on every
\* field of r that holds a value and whose path the peer has
RoundTripLaw ==
    RoundTripped => SameOn(first, dst, JsonOf(src).m, <<>>, typeRestrain)

\* a path segment name[n], its name and its index
Indexed(seg) == Len(seg) >= 4 /\ seg[2] = "[" /\ seg[Len(seg)] = "]"
IndexOf(seg) == Atoi(SubSeq(seg, 3, Len(seg) - 1))
\* a path each of whose segments is a name or name[digits]
WellFormed(path) ==
    \A i \in 1..Len(path) : Indexed(path[i]) \/ \A j \in 1..Len(path[i]) : path[i][j] \notin {"[", "]"}
\* how far a path can be followed in a tree: "found" or "absent" at the last
\* key, "absent" at a key on the way that is missing or null, "missing" at a
\* segment name[n] whose sequence is missing or null, "beyond" when n is not an
\* index of the sequence, "mismatch" when a value on the way is of another kind
RECURSIVE Walk(_, _)
WalkInto(held, path) ==
    IF held.k = "map" THEN Walk(held.m, path) ELSE "mismatch"
WalkIndexed(held, idx, path) ==
    IF held = TNil THEN "missing"
    ELSE IF held.k # "seq" THEN "mismatch"
    ELSE IF idx >= Len(held.e) THEN "beyond"
    ELSE WalkInto(held.e[idx + 1], path)
WalkPlain(held, path) ==
    IF held = TNil THEN "absent" ELSE WalkInto(held, path)
Walk(m, path) ==
    IF Len(path) = 1 THEN IF MapGet(m, Concat(path[1])) = TNil THEN "absent" ELSE "found"
    ELSE IF Indexed(path[1])
    THEN WalkIndexed(MapGet(m, path[1][1]), IndexOf(path[1]), Tail(path))
    ELSE WalkPlain(MapGet(m, Concat(path[1])), Tail(path))

\* the paths a Decode into a record of type t may look up under prefix: that of
\* every scalar and pointer field, and those of the fields of the structs
\* nested in t or pointed to
RECURSIVE LookupPaths(_, _, _)
LookupsOf(decl, prefix, name) ==
    IF ~Passes(decl, name) \/ BadAnnotation(decl) \/ Spliced(decl) THEN {}
    ELSE IF decl.Kind = "struct"
    THEN LookupPaths(decl.T, prefix \o EffectivePath(decl, name), name)
    ELSE IF decl.Kind = "ptr"
    THEN {prefix \o EffectivePath(decl, name)}
             \cup LookupPaths(decl.T, prefix \o EffectivePath(decl, name), name)
    ELSE {prefix \o EffectivePath(decl, name)}
LookupPaths(t, prefix, name) ==
    UNION {LookupsOf(decl, prefix, name) : decl \in FieldsOf(t)}
\* a Decode into a record has returned or panicked
DecodeEnded == op = "Unmarshal" /\ Returned /\ dstArg = "ptr"

\* C16: a lookup at a path with a segment name[n] gives nothing, and the Decode
\* does not panic, when the sequence name is missing from the source tree and
\* when n is beyond its bounds
IndexedLookupAbsent ==
    DecodeEnded =>
        \A path \in LookupPaths(dst.t, <<>>, typeRestrain) :
            Walk(JsonOf(src).m, path) \in {"missing", "beyond"} =>
                /\ GetValueFromMap(JsonOf(src).m, path).st = "ok"
                /\ At(JsonOf(src).m, path) = TNil
                /\ ret # "panic"
\* the same when the sequence is missing from the source tree
MissingSequenceAbsent ==
    DecodeEnded =>
        \A path \in LookupPaths(dst.t, <<>>, typeRestrain) :
            Walk(JsonOf(src).m, path) = "missing" =>
                /\ GetValueFromMap(JsonOf(src).m, path).st = "ok"
                /\ At(JsonOf(src).m, path) = TNil
\* a Decode has panicked on a lookup at somelist[0] in an empty sequence
BeyondBoundsPanics ==
    /\ DecodeEnded /\ dst.t = "SystemStruct" /\ typeRestrain = "APIObject"
    /\ src.f["Config"].f["SomeList"] = VSlice("APIListedObj", <<>>)
    /\ ret = "panic"

\* every path a Decode into dst looks up is well formed and can be followed in
\* the source tree as far as the tree goes (no index beyond bounds, no value of
\* another kind on the way), and no field raises the configuration error
Walkable ==
    /\ ~DecodeMeetsError(dst, typeRestrain)
    /\ \A path \in LookupPaths(dst.t, <<>>, typeRestrain) :
          WellFormed(path) /\ Walk(JsonOf(src).m, path) \notin {"beyond", "mismatch"}
\* a field of one of the kinds K whose path has a key that is absent or null in
\* the source tree
MissingFor(decl, K) ==
    /\ Passes(decl, typeRestrain) /\ decl.Kind \in K
    /\ Walk(JsonOf(src).m, EffectivePath(decl, typeRestrain)) \in {"absent", "missing"}
\* the Decode has returned no error, has built nothing for the fields of the
\* kinds K whose data is missing and has left them as they were, and has read
\* the scalar fields whose data is there
SkipsMissing(K) ==
    /\ ret = "nil"
    /\ \A decl \in FieldsOf(dst.t) :
          /\ MissingFor(decl, K) =>
                /\ Held(out.m, decl.Name) = TNil
                /\ dst.f[decl.Name] = dstBefore.f[decl.Name]
          /\ (/\ Passes(decl, typeRestrain) /\ Plain(decl)
              /\ Walk(JsonOf(src).m, EffectivePath(decl, typeRestrain)) = "found") =>
                Held(out.m, decl.Name) = At(JsonOf(src).m, EffectivePath(decl, typeRestrain))

\* C17: when a key on the way of a field's path, or its last key, is absent or
\* null in the source tree, the Decode builds nothing for the field, leaves it
\* as it was, returns no error and goes on with the other fields (over the
\* calls in which what is found has the type of the destination field)
MissingDataSkipped ==
    (DecodeEnded /\ Walkable /\ ret # ERROR_JSON_TYPE) =>
        SkipsMissing({"string", "int", "bool", "slice"})
\* the same for the strings, numbers and booleans of the destination records
\* that have no slice of structs
MissingScalarSkipped ==
    (/\ DecodeEnded /\ Walkable /\ ret # ERROR_JSON_TYPE
     /\ \A decl \in FieldsOf(dst.t) : ~StructSlice(decl)) =>
        SkipsMissing({"string", "int", "bool"})
\* a Decode from a source with no sequence at config.somelist has emptied the
\* destination's ListedStuff, read at config.somelist[0].list
MissingDataEmptiesSlice ==
    /\ DecodeEnded /\ dst.t = "SystemStruct" /\ ret = "nil"
    /\ src.f["Config"].f["SomeList"] = VNilSlice("APIListedObj")
    /\ dstBefore.f["ListedStuff"] = VSlice("string", <<VStr("a")>>)
    /\ out.m["ListedStuff"] = TNilMap
    /\ dst.f["ListedStuff"] = VNilSlice("string")
\* a Decode from SecondaryAPIObject, which has no key "config", into a record
\* with a slice of structs at config.somelist has panicked
MissingSlicePanics ==
    /\ DecodeEnded /\ dst.t = "GatedDeep" /\ typeRestrain = "SecondaryAPIObject"
    /\ Walk(JsonOf(src).m, << <<"config">>, <<"somelist">> >>) = "absent"
    /\ ret = "panic"

\* C18: the map a Decode builds has, for every scalar field of the destination
\* that is not skipped, the field's declared name with what the source tree
\* holds at the field's path, or no key of that name when the tree holds
\* nothing there; and it has no key that is not the declared name of an
\* annotated field that is not skipped
DecodeShape ==
    (Decoded /\ dstArg = "ptr") =>
        /\ \A decl \in FieldsOf(dst.t) :
              (Plain(decl) /\ Resolved(decl, typeRestrain)) =>
                  IF At(JsonOf(src).m, EffectivePath(decl, typeRestrain)) # TNil
                  THEN /\ decl.Name \in DOMAIN out.m
                       /\ out.m[decl.Name] = At(JsonOf(src).m, EffectivePath(decl, typeRestrain))
                  ELSE decl.Name \notin DOMAIN out.m
        /\ \A key \in DOMAIN out.m :
              \E decl \in FieldsOf(dst.t) : decl.Name = key /\ Resolved(decl, typeRestrain)
\* the same for the calls whose source has a type name, a key that holds a nil
\* map counting as no key
DecodeShapeOfNamed ==
    (Decoded /\ dstArg = "ptr" /\ typeRestrain # "") =>
        /\ \A decl \in FieldsOf(dst.t) :
              (Plain(decl) /\ Resolved(decl, typeRestrain)) =>
                  Held(out.m, decl.Name) = At(JsonOf(src).m, EffectivePath(decl, typeRestrain))
        /\ \A key \in DOMAIN out.m :
              \E decl \in FieldsOf(dst.t) : decl.Name = key /\ Resolved(decl, typeRestrain)

\* the tree m has every field of v that takes part in an Encode at prefix
\* followed by the field's path: a scalar or a sequence of scalars as it is, a
\* struct (one behind a pointer included) as a map holding its own fields the
\* same way, a "->" struct by its fields under prefix, and a slice of structs
\* as a sequence of such maps
RECURSIVE PlacedAll(_, _, _, _)
PlacedElems(elems, held, name) ==
    /\ held.k = "seq"
    /\ Len(held.e) = Len(elems)
    /\ \A j \in 1..Len(elems) :
          held.e[j].k = "map" /\ PlacedAll(elems[j], held.e[j].m, <<>>, name)
PlacedField(decl, v, m, prefix, name) ==
    TakesPart(decl, v, name) =>
        CASE Plain(decl) ->
                At(m, prefix \o EffectivePath(decl, name)) = JsonOf(v.f[decl.Name])
          [] Spliced(decl) -> PlacedAll(v.f[decl.Name], m, prefix, name)
          [] decl.Kind = "struct" /\ ~Spliced(decl) ->
                /\ At(m, prefix \o EffectivePath(decl, name)).k = "map"
                /\ PlacedAll(v.f[decl.Name], m, prefix \o EffectivePath(decl, name), name)
          [] decl.Kind = "ptr" ->
                /\ At(m, prefix \o EffectivePath(decl, name)).k = "map"
                /\ PlacedAll(v.f[decl.Name].e, m, prefix \o EffectivePath(decl, name), name)
          [] decl.Kind \in {"map", "float64"} \/ (decl.Kind = "slice" /\ decl.T = "float64") ->
                At(m, prefix \o EffectivePath(decl, name)) = JsonOf(v.f[decl.Name])
          [] OTHER ->
                PlacedElems(v.f[decl.Name].e, At(m, prefix \o EffectivePath(decl, name)), name)
PlacedAll(v, m, prefix, name) ==
    \A decl \in FieldsOf(v.t) : PlacedField(decl, v, m, prefix, name)

\* C19: the tree an Encode builds has, at the path of every annotated field
\* that is not skipped and holds a value, the tree value of the field: a scalar
\* copied, a sequence element by element, a nested struct as the map built from
\* its own annotated fields
EncodePlacement ==
    Encoded => PlacedAll(src, out.m, <<>>, typeRestrain)
\* the same for the calls that meet no configuration error and hand to Set no
\* path that ends with the marker "->"
EncodePlacementWithoutError ==
    (/\ Encoded /\ ~EncodeMeetsError(src, typeRestrain)
     /\ \A path \in WrittenPaths(src, typeRestrain) : path[Len(path)] # <<DISMISS_NESTED>>) =>
        PlacedAll(src, out.m, <<>>, typeRestrain)
\* an Encode of the record of the package's test (Name, Count, Flag,
\* Nested.Direction and ListedStuff set) has built the tree of that test
EncodePlacementOfExample ==
    /\ Encoded /\ typeRestrain = "APIObject" /\ src.t = "SystemStruct"
    /\ src.f["Name"] = VStr("up") /\ src.f["Count"] = VInt(MaxInt) /\ src.f["Flag"] = VBool(TRUE)
    /\ src.f["Nested"].f["Direction"] = VStr("up")
    /\ src.f["Nested"].f["DeeepNested"].f["Direction"] = VStr("")
    /\ src.f["NestedPointer"].isnil
    /\ src.f["ListedStuff"] = VSlice("string", <<VStr("a")>>)
    /\ out.m = MapPut(MapPut(EmptyMap,
                  "metadata", TMap(MapPut(MapPut(EmptyMap, "namefield", TStr("up")),
                                          "flag", TBool(TRUE)))),
                  "config", TMap(MapPut(MapPut(EmptyMap, "somecount", TNum(MaxInt)),
                      "somelist", TSeq(<<TMap(MapPut(MapPut(EmptyMap,
                          "config", TMap(MapPut(EmptyMap, "direction", TStr("up")))),
                          "list", TSeq(<<TStr("a")>>)))>>))))

\* the kinds of the records' values that getFieldValue has no case for
NoTreeKinds == {"float64"}
\* the error the specification names for a kind with no tree value
UnsupportedTypeError(kind) == "unsupported type: " \o kind
\* the value v is of the kind, or a slice with an element of the kind, or a map
\* with a value of the kind
HoldsKind(v, kind) ==
    \/ v.k = kind
    \/ v.k = "slice" /\ \E i \in 1..Len(v.e) : v.e[i].k = kind
    \/ v.k = "map" /\ \E key \in DOMAIN v.m : v.m[key].k = kind
\* a Marshal whose Encode has come to a value of the kind: an annotated field of
\* src that is not skipped and not zero holds it, and no configuration error
\* ended the Encode
UnsupportedReached(kind) ==
    /\ op = "Marshal" /\ Returned /\ dstArg # "nilptr"
    /\ ~EncodeMeetsError(src, typeRestrain)
    /\ \E decl \in FieldsOf(src.t) :
           TakesPart(decl, src, typeRestrain) /\ HoldsKind(src.f[decl.Name], kind)

\* C20 as stated: an Encode that comes to an annotated non-zero field, or slice
\* element, or map value, of a kind with no tree value returns the UnsupportedTypeError that
\* names the kind as the error of the call, without a crash, and dst is as it was
UnsupportedKindReturned ==
    \A kind \in NoTreeKinds :
        UnsupportedReached(kind) =>
            /\ ret = UnsupportedTypeError(kind)
            /\ panicMsg = ""
            /\ dst = dstBefore
\* C20: an Encode that comes to an annotated non-zero field, slice element or
\* map value of a kind with no tree value panics with the message "unsupported type: "
\* followed by the kind; the call returns no error value, no tree is handed to
\* the json codec and dst is as it was
UnsupportedKindPanics ==
    \A kind \in NoTreeKinds :
        UnsupportedReached(kind) =>
            /\ ret = "panic"
            /\ panicMsg = UnsupportedTypeError(kind)
            /\ out = NoTree
            /\ dst = dstBefore
\* Marshal(Measured{Ratio: MaxInt}, &p) has panicked with "unsupported type: float64"
UnsupportedKindPanicsWitness ==
    /\ op = "Marshal" /\ Returned /\ dstArg = "ptr"
    /\ src.t = "Measured" /\ src.f["Ratio"] = VFloat(MaxInt)
    /\ ret = "panic" /\ panicMsg = "unsupported type: float64"
    /\ dst = dstBefore
\* the same for Marshal(Measured{Samples: []float64{MaxInt}}, &p): the kind is
\* that of an element of a slice
UnsupportedElementPanics ==
    /\ op = "Marshal" /\ Returned /\ dstArg = "ptr"
    /\ src.t = "Measured" /\ src.f["Ratio"] = VFloat(0)
    /\ src.f["Samples"] = VSlice("float64", <<VFloat(MaxInt)>>)
    /\ ret = "panic" /\ panicMsg = "unsupported type: float64"
    /\ dst = dstBefore
\* the same for Marshal(Measured{Weights: map[string]float64{"a": MaxInt}}, &p):
\* the kind is that of a value of a map
UnsupportedMapValuePanics ==
    /\ op = "Marshal" /\ Returned /\ dstArg = "ptr"
    /\ src.t = "Measured" /\ src.f["Ratio"] = VFloat(0)
    /\ src.f["Samples"] = VNilSlice("float64")
    /\ src.f["Weights"] = VMap("float64", MapPut(<<>>, "a", VFloat(MaxInt)))
    /\ ret = "panic" /\ panicMsg = "unsupported type: float64"
    /\ dst = dstBefore

\* what generate builds for the arguments of a call that runs alone
AloneGenerate(call) ==
    IF call.op = "Marshal"
    THEN EncoderGenerate(call.src, EmptyMap, TypeName(call.dstBefore.t))
    ELSE DecoderGenerate(toMap(call.src).m, TypeName(call.src.t), call.dstBefore, EmptyMap, <<>>)
\* the tree of gen as the bytes json.Unmarshal is given
AloneBytes(call, gen) ==
    IF call.op = "Marshal" THEN TMap(gen.into) ELSE Marshalled(TMap(gen.into))
\* the call has ended as its generate gen and its json.Unmarshal hyd end it alone
EndsAs(call, gen, hyd) ==
    IF gen.st = "panic"
    THEN call.ret = "panic" /\ call.out = NoTree /\ call.dst = call.dstBefore
    ELSE IF gen.st = "err"
    THEN call.ret = gen.err /\ call.out = TMap(gen.into) /\ call.dst = call.dstBefore
    ELSE /\ call.ret = (IF hyd.err THEN ERROR_JSON_TYPE ELSE "nil")
         /\ call.out = TMap(gen.into)
         /\ call.dst = hyd.v
EndsAsGenerated(call, gen) ==
    EndsAs(call, gen, Hydrate(call.dstBefore, AloneBytes(call, gen)))
EndsAsAlone(call) == EndsAsGenerated(call, AloneGenerate(call))

\* C21: calls of Marshal and Unmarshal made at the same time with different
\* destination records share no state: under every interleaving of their Init,
\* generate and json.Unmarshal steps, a call that has returned has built the
\* tree, returned the error and left in its destination the contents it gives
\* when it runs alone, and a destination is as it was until its own call writes it
ConcurrentAsAlone ==
    \A c \in Callers :
        /\ calls[c].pc = "done" => EndsAsAlone(calls[c])
        /\ calls[c].pc \in {"init", "run", "hydrate"} => calls[c].dst = calls[c].dstBefore
\* a Marshal for APIObject and an Unmarshal from SecondaryAPIObject have both
\* returned nil, each having run while the other was under way
ConcurrentAsAloneWitness ==
    /\ calls["a"].pc = "done" /\ calls["b"].pc = "done"
    /\ calls["a"].met /\ calls["b"].met
    /\ calls["a"].op = "Marshal" /\ calls["a"].dstBefore = Zero("APIObject")
    /\ calls["a"].src = Sample("SystemStructWithMultipleDestination", "up")
    /\ calls["b"].op = "Unmarshal" /\ calls["b"].src = Sample("SecondaryAPIObject", "up")
    /\ calls["b"].dstBefore = Zero("SystemStructWithMultipleDestination")
    /\ calls["a"].ret = "nil" /\ calls["b"].ret = "nil"
    /\ calls["a"].dst # calls["a"].dstBefore /\ calls["b"].dst # calls["b"].dstBefore
    /\ builders["a"].typeRestrain # builders["b"].typeRestrain

\* f, a scalar or a slice of strings, is written by an Encode of the record v
\* for name, and no other path than that of f is
OnlyField(f, v, name) ==
    /\ f.Kind \in {"string", "int", "bool"} \/ (f.Kind = "slice" /\ f.Value.et = "string")
    /\ f.err = "" /\ ~f.Skip /\ ~IsZero(f.Value)
    /\ WrittenPaths(v, name) = {f.Path}
\* a walk along path has made, in a map that was empty, the containers of every
\* segment but the last: an empty map under a plain segment, under name of
\* name[n] a sequence of exactly n + 1 slots with a map in slot n, and has gone
\* on inside it
RECURSIVE Vivified(_, _)
VivifiedSlot(held, idx, path) ==
    /\ held.k = "seq" /\ Len(held.e) = idx + 1
    /\ held.e[idx + 1].k = "map" /\ Vivified(held.e[idx + 1].m, path)
VivifiedMap(held, path) == held.k = "map" /\ Vivified(held.m, path)
Vivified(m, path) ==
    IF Len(path) = 1 THEN DOMAIN m = {Concat(path[1])}
    ELSE IF Indexed(path[1])
    THEN DOMAIN m = {path[1][1]} /\ VivifiedSlot(m[path[1][1]], IndexOf(path[1]), Tail(path))
    ELSE DOMAIN m = {Concat(path[1])} /\ VivifiedMap(m[Concat(path[1])], Tail(path))
\* an Encode that meets no configuration error, of a record with one field to
\* write, at a well-formed path whose indices are all in idxs, has not panicked
\* and has made the containers
VivifiesAt(f, idxs) ==
    (/\ OnlyField(f, src, typeRestrain)
     /\ WellFormed(f.Path)
     /\ \A i \in 1..Len(f.Path) : Indexed(f.Path[i]) => IndexOf(f.Path[i]) \in idxs)
    => /\ ret # "panic"
       /\ out # NoTree
       /\ Vivified(out.m, f.Path)
VivifiesFor(idxs) ==
    (op = "Marshal" /\ Returned /\ dstArg # "nilptr" /\ ~EncodeMeetsError(src, typeRestrain)) =>
        \A i \in 1..NumField(src.t) : VivifiesAt(FieldInit(i, src, typeRestrain), idxs)

\* C22: Set makes the containers that are absent on its way: an empty map under
\* a plain segment, and under the name of a segment name[n] a sequence of
\* exactly n + 1 slots with an empty map in slot n, for every n >= 0; the walk
\* goes on inside what it made and does not crash
SetVivifies == VivifiesFor(0..MaxInt)
\* the same for the paths whose indices are all 0
SetVivifiesFirstSlot == VivifiesFor({0})
\* Marshal(SecondSlot{Second: "up"}, &p), whose path has somelist[1], has panicked
SecondSlotPanics ==
    /\ op = "Marshal" /\ Returned /\ dstArg = "ptr" /\ src.t = "SecondSlot"
    /\ src.f["Second"] = VStr("up") /\ src.f["Name"] = VStr("")
    /\ ret = "panic" /\ panicMsg = RUNTIME_ERROR /\ dst = dstBefore

\* the last segment of a path, and the path up to it
Final(path) == path[Len(path)]
Most(path) == SubSeq(path, 1, Len(path) - 1)
\* the map in which Set writes the last segment of path, m being the tree
CurrentMap(m, path) == IF Len(path) = 1 THEN TMap(m) ELSE At(m, Most(path))
\* every entry of the map val is in the map cur, which has no key "->"
SplicedInto(cur, val) ==
    val.k = "map" =>
        /\ cur.k = "map"
        /\ \A key \in DOMAIN val.m : key \in DOMAIN cur.m /\ cur.m[key] = val.m[key]
        /\ DISMISS_NESTED \notin DOMAIN cur.m
\* f is a field that generate hands to SetValueIntoMap
HandedToSet(f) ==
    /\ f.err = "" /\ ~f.Skip /\ ~IsZero(f.Value)
    /\ ~(IsStruct(f) /\ DissmisNesting(f.Path))
\* what Set has done for f at the last segment of its path, markers being the
\* last segments under which the value is spliced
FinalWritten(f, markers) ==
    HandedToSet(f) =>
        IF Final(f.Path) \in markers
        THEN SplicedInto(CurrentMap(out.m, f.Path), getFieldValue(f, f.Value).v)
        ELSE Final(f.Path) # <<DISMISS_NESTED>> =>
                At(out.m, f.Path) = getFieldValue(f, f.Value).v
SetAtFinalFor(markers) ==
    (Encoded /\ ~EncodeMeetsError(src, typeRestrain)) =>
        \A i \in 1..NumField(src.t) : FinalWritten(FieldInit(i, src, typeRestrain), markers)

\* C23: at the last segment Set writes the value under the segment's key; when
\* the last segment is the marker "->", every entry of the map that is the
\* value is in the current map after Set, and the current map has no key "->"
SetAtFinal == SetAtFinalFor({<<DISMISS_NESTED>>})
\* the same for the last segments that are keys
SetAtFinalKey == SetAtFinalFor({})
\* Marshal(Labelled{Labels: map[string]string{"a": "up"}}, &p) has returned nil
\* and its tree is empty: the entry of Labels is not in it
MapNotSpliced ==
    /\ Encoded /\ dstArg = "ptr" /\ src.t = "Labelled"
    /\ src.f["Name"] = VStr("") /\ src.f["Extra"] = VNilMap("string")
    /\ src.f["Labels"] = VMap("string", MapPut(<<>>, "a", VStr("up")))
    /\ out.m = EmptyMap
\* Marshal(TailSpliced{Child: SystemDeepNested{Direction: "up"}}, &p) has
\* returned nil and its tree is {config: {}}
StructNotSpliced ==
    /\ Encoded /\ dstArg = "ptr" /\ src.t = "TailSpliced"
    /\ src.f["Name"] = VStr("") /\ src.f["Child"].f["Direction"] = VStr("up")
    /\ out.m = MapPut(EmptyMap, "config", TMap(EmptyMap))

\* the record whose annotations a call goes by: src of Marshal, dst of Unmarshal
Annotated == IF op = "Marshal" THEN src ELSE dstBefore
\* the call has got as far as its generate
Generating ==
    /\ Returned
    /\ \/ op = "Marshal" /\ dstArg # "nilptr" /\ ~EncodeMeetsError(src, typeRestrain)
       \/ op = "Unmarshal" /\ dstArg = "ptr" /\ ~DecodeMeetsError(dstBefore, typeRestrain)
\* f is a field the call uses whose path has a segment that is neither a name
\* nor name[digits]
MalformedUsed(f) ==
    /\ f.err = "" /\ ~f.Skip /\ ~WellFormed(f.Path)
    /\ op = "Marshal" => ~IsZero(f.Value)

\* C24: a call that uses a field whose path has a segment with a malformed
\* index, such as name[], returns a parse error to its caller: it neither
\* succeeds with the segment taken as index 0 or as another segment, nor crashes
MalformedIndexRejected ==
    (Generating /\ \E i \in 1..NumField(Annotated.t) :
                       MalformedUsed(FieldInit(i, Annotated, typeRestrain)))
    => ret \notin {"nil", "panic"} /\ dst = dstBefore
\* Marshal(Slotted{Unindexed: "up"}, &p), whose path has somelist[], has
\* returned nil with the value in slot 0 of somelist
EmptyIndexIsZero ==
    /\ Encoded /\ dstArg = "ptr" /\ src.t = "Slotted" /\ dstBefore = Zero("APIObject")
    /\ src.f["Unindexed"] = VStr("up")
    /\ src.f["Last"] = VStr("") /\ src.f["Name"] = VStr("")
    /\ out.m["config"].m["somelist"].e[1].m["config"].m["direction"] = TStr("up")
    /\ dst.f["Config"].f["SomeList"].e[1].f["Config"].f["Direction"] = VStr("up")
\* Unmarshal(p, &Slotted{}) has returned nil with slot 0 of somelist read for
\* the path with somelist[]
EmptyIndexReadsZero ==
    /\ Decoded /\ dstArg = "ptr" /\ dst.t = "Slotted" /\ src.t = "APIObject"
    /\ Len(src.f["Config"].f["SomeList"].e) >= 1
    /\ src.f["Config"].f["SomeList"].e[1].f["Config"].f["Direction"] = VStr("up")
    /\ dstBefore.f["Unindexed"] = VStr("")
    /\ dst.f["Unindexed"] = VStr("up")

\* the tokens of an annotation between "types<" and ">", the positions of "|"
\* among them, and the number of clauses they declare
ClauseTokens(decl) ==
    SubSeq(decl.sm, 1 + (CHOOSE i \in 1..Len(decl.sm) : decl.sm[i] = "types<"), Len(decl.sm) - 1)
HasClauses(decl) == \E i \in 1..Len(decl.sm) : decl.sm[i] = "types<"
Bars(toks) == {i \in 1..Len(toks) : toks[i] = TYPES_SPLIT}
NumClauses(toks) == Cardinality(Bars(toks)) + 1
\* where the k-th declared clause starts, and the type name it declares
ClauseStart(toks, k) ==
    IF k = 1 THEN 1
    ELSE 1 + (CHOOSE i \in Bars(toks) : Cardinality({j \in Bars(toks) : j < i}) = k - 2)
DeclaredName(toks, k) == toks[ClauseStart(toks, k)]
\* the position of the first declared clause for name
FirstDeclared(toks, name) ==
    CHOOSE k \in 1..NumClauses(toks) :
        /\ DeclaredName(toks, k) = name
        /\ \A j \in 1..(k - 1) : DeclaredName(toks, j) # name
\* the path this clause decides for the field f: its own when it has one, else
\* the primary path
DecidedPath(f, clause) == IF clause.Path # <<>> THEN clause.Path ELSE PrimaryPath(f.stfield)
\* the typeMatches of f are the declared clauses in their order, and the first
\* one declared for name decides the path of f
FirstDecides(f, toks, name) ==
    /\ Len(f.tag.Opts.MatchTypes) = NumClauses(toks)
    /\ \A k \in 1..NumClauses(toks) : f.tag.Opts.MatchTypes[k].Name = DeclaredName(toks, k)
    /\ (\E k \in 1..NumClauses(toks) : DeclaredName(toks, k) = name) =>
          /\ ~f.Skip
          /\ f.Path = DecidedPath(f, f.tag.Opts.MatchTypes[FirstDeclared(toks, name)])
\* the call has used the path of f: Encode has written the value there, Decode
\* has read what is there
PathUsed(f) ==
    (f.err = "" /\ ~f.Skip /\ f.Kind \in {"string", "int", "bool"}) =>
        /\ (Encoded /\ ~IsZero(f.Value)) => At(out.m, f.Path) = JsonOf(f.Value)
        /\ (Decoded /\ At(JsonOf(src).m, f.Path) # TNil) =>
              JsonOf(dst.f[f.stfield.Name]) = At(JsonOf(src).m, f.Path)
FirstDecidesAt(f) ==
    HasClauses(f.stfield) =>
        FirstDecides(f, ClauseTokens(f.stfield), typeRestrain) /\ PathUsed(f)

ElementShaped(built, elem, t) ==
    /\ built.k = "map" /\ elem.k = "map"
    /\ \A d \in FieldsOf(t) :
          (Passes(d, typeRestrain) /\ Plain(d)) =>
              Held(built.m, d.Name) = At(elem.m, EffectivePath(d, typeRestrain))
\* the output sequence built for found: as long, and element by element in the
\* same order
SequenceShaped(built, found, t) ==
    /\ built.k = "seq" /\ Len(built.e) = Len(found.e)
    /\ \A i \in 1..Len(found.e) : ElementShaped(built.e[i], found.e[i], t)
\* the output of a Decode for the slice-of-struct field decl, found being what
\* the source tree holds at the field's path
SliceShapedFrom(decl, found) ==
    IF found # TNil /\ found.k = "seq"
    THEN decl.Name \in DOMAIN out.m /\ SequenceShaped(out.m[decl.Name], found, decl.T)
    ELSE decl.Name \notin DOMAIN out.m
SliceShaped(decl) ==
    SliceShapedFrom(decl, At(JsonOf(src).m, EffectivePath(decl, typeRestrain)))
\* a key before the last one of the path is absent or null in the tree
MissingOnTheWay(m, path) ==
    Len(path) > 1 /\ Walk(m, SubSeq(path, 1, Len(path) - 1)) # "found"

\* C26: a Decode maps the sequence found at the path of a slice-of-struct field
\* element by element, each element map shaped by the element struct's own
\* annotations with no prefix, in the same length and order; when the whole
\* sequence is absent the field is omitted from the output (over the calls
\* that return no configuration error)
SliceOfStructDecoded ==
    (DecodeEnded /\ Walkable /\ ret \in {"nil", "panic"}) =>
        /\ ret = "nil"
        /\ \A decl \in FieldsOf(dst.t) :
              (StructSlice(decl) /\ Passes(decl, typeRestrain)) => SliceShaped(decl)
\* the same for the sources that hold every key before the last one of the path
SliceOfStructDecodedUnderParent ==
    (DecodeEnded /\ Walkable /\ ret \in {"nil", "panic"}) =>
        \A decl \in FieldsOf(dst.t) :
            (/\ StructSlice(decl) /\ Passes(decl, typeRestrain)
             /\ ~MissingOnTheWay(JsonOf(src).m, EffectivePath(decl, typeRestrain))) =>
                ret = "nil" /\ SliceShaped(decl)
\* Unmarshal(APIObject{Config: {SomeList: [{Config: {Direction: "up"}}]}}, &GatedDeep{})
\* has built one element map with Direction and filled the destination from it
SliceOfStructMapped ==
    /\ Decoded /\ dst.t = "GatedDeep" /\ typeRestrain = "APIObject"
    /\ At(JsonOf(src).m, << <<"config">>, <<"somelist">> >>).k = "seq"
    /\ Len(out.m["Items"].e) = 1
    /\ Held(out.m["Items"].e[1].m, "Direction") = TStr("up")
    /\ dst.f["Items"].e[1].f["Direction"] = VStr("up")
\* a Decode whose source holds the key config with a null somelist has omitted
\* the field
NullSequenceOmitted ==
    /\ Decoded /\ dst.t = "GatedDeep" /\ typeRestrain = "APIObject"
    /\ Walk(JsonOf(src).m, << <<"config">>, <<"somelist">> >>) = "absent"
    /\ "Items" \notin DOMAIN out.m
    /\ dst.f["Items"] = dstBefore.f["Items"]
\* a Decode whose source has no key config has panicked on the assertion
\* value.([]interface{}) instead of omitting the field
AbsentSequencePanics ==
    /\ DecodeEnded /\ Walkable /\ ret = "panic"
    /\ \E decl \in FieldsOf(dst.t) :
          /\ StructSlice(decl) /\ Passes(decl, typeRestrain)
          /\ MissingOnTheWay(JsonOf(src).m, EffectivePath(decl, typeRestrain))

\* element n of the sequence a map holds under name, for the segment name[n];
\* TNil when there is no such sequence or element
ElementOf(cur, seg) ==
    IF cur = TNil \/ cur.k # "map" THEN TNil
    ELSE IF MapGet(cur.m, seg[1]) = TNil \/ MapGet(cur.m, seg[1]).k # "seq" THEN TNil
    ELSE IF IndexOf(seg) >= Len(MapGet(cur.m, seg[1]).e) THEN TNil
    ELSE MapGet(cur.m, seg[1]).e[IndexOf(seg) + 1]
\* what the tree m holds at path when its last segment name[n] is decomposed
AtDecomposed(m, path) == ElementOf(CurrentMap(m, path), Final(path))
\* the current map of path has the whole last segment as a key
LiteralKey(m, path) ==
    /\ CurrentMap(m, path) # TNil /\ CurrentMap(m, path).k = "map"
    /\ Concat(Final(path)) \in DOMAIN CurrentMap(m, path).m
\* Set has put the value of f in element n of the sequence under name, and not
\* under the key "name[n]"
DecomposedBySet(f) ==
    (HandedToSet(f) /\ Indexed(Final(f.Path))) =>
        /\ AtDecomposed(out.m, f.Path) = getFieldValue(f, f.Value).v
        /\ ~LiteralKey(out.m, f.Path)
\* Get has returned element n of the sequence the source tree holds under name
DecomposedByGet(f) ==
    (/\ f.err = "" /\ ~f.Skip /\ f.Kind \in {"string", "int", "bool", "ptr"}
     /\ Indexed(Final(f.Path)) /\ AtDecomposed(JsonOf(src).m, f.Path) # TNil) =>
        /\ f.stfield.Name \in DOMAIN out.m
        /\ out.m[f.stfield.Name] = AtDecomposed(JsonOf(src).m, f.Path)

\* C27: every path segment of the form name[digits], the last one included,
\* addresses element digits of the sequence under name in both Set and Get, and
\* is never used as the map key "name[digits]"
IndexedSegmentDecomposed ==
    /\ (Encoded /\ ~EncodeMeetsError(src, typeRestrain)) =>
          \A i \in 1..NumField(src.t) : DecomposedBySet(FieldInit(i, src, typeRestrain))
    /\ (Decoded /\ dstArg = "ptr") =>
          \A i \in 1..NumField(dstBefore.t) :
              DecomposedByGet(FieldInit(i, dstBefore, typeRestrain))
\* Marshal(Slotted{Last: "up"}, &p) has built {config: {"somelist2[0]": "up"}}
\* and has left p.Config.SomeList2 as it was
LastSegmentIsKeyInSet ==
    /\ Encoded /\ dstArg = "ptr" /\ src.t = "Slotted" /\ typeRestrain = "APIObject"
    /\ src.f["Last"] = VStr("up")
    /\ MapGet(out.m["config"].m, "somelist2[0]") = TStr("up")
    /\ MapGet(out.m["config"].m, "somelist2") = TNil
    /\ dst.f["Config"].f["SomeList2"] = dstBefore.f["Config"].f["SomeList2"]
\* Unmarshal of an APIObject whose SomeList2 has an element, into &Slotted{},
\* has returned nil without reading config.somelist2[0]
LastSegmentIsKeyInGet ==
    /\ Decoded /\ dstArg = "ptr" /\ dst.t = "Slotted" /\ src.t = "APIObject"
    /\ AtDecomposed(JsonOf(src).m, << <<"config">>, <<"somelist2", "[", "0", "]">> >>) # TNil
    /\ "Last" \notin DOMAIN out.m
    /\ dst.f["Last"] = dstBefore.f["Last"]

\* path p is a proper prefix of path q
IsPrefix(p, q) == Len(p) < Len(q) /\ SubSeq(q, 1, Len(p)) = p
\* the writes of an Encode of v go to well-formed paths, none a prefix of
\* another, none ending with the marker "->", with indices in idxs
SeparateWrites(v, name, idxs) ==
    \A p \in WrittenPaths(v, name) :
        /\ WellFormed(p) /\ Final(p) # <<DISMISS_NESTED>>
        /\ \A i \in 1..Len(p) : Indexed(p[i]) => IndexOf(p[i]) \in idxs
        /\ \A q \in WrittenPaths(v, name) : ~IsPrefix(p, q)
\* after the writes of an Encode that meets no configuration error and no value
\* of an unsupported kind, every written value is at its path in the tree
FrameOfSetFor(idxs) ==
    (/\ op = "Marshal" /\ Returned /\ dstArg = "ptr"
     /\ ~EncodeMeetsError(src, typeRestrain)
     /\ ret = "panic" => panicMsg = RUNTIME_ERROR
     /\ SeparateWrites(src, typeRestrain, idxs)) =>
        /\ ret # "panic" /\ out # NoTree
        /\ PlacedAll(src, out.m, <<>>, typeRestrain)

\* C28: a write of a field during an Encode leaves every entry outside its path
\* as it was, fields with a common prefix being merged into the same map or
\* sequence element: after the writes of a record, at different paths none of
\* which is a prefix of another, every written value is retrievable at its path
FrameOfSet == FrameOfSetFor(0..MaxInt)
\* the same for the paths whose indices are all 0
FrameOfSetFirstSlot == FrameOfSetFor({0})
\* the Encode of the package's test has put Nested and ListedStuff, whose paths
\* both go through config.somelist[0], in the same element, next to somecount
SharedElementMerged ==
    /\ Encoded /\ typeRestrain = "APIObject" /\ src.t = "SystemStruct"
    /\ src.f["Count"] = VInt(MaxInt) /\ src.f["Nested"].f["Direction"] = VStr("up")
    /\ src.f["ListedStuff"] = VSlice("string", <<VStr("a")>>)
    /\ Len(out.m["config"].m["somelist"].e) = 1
    /\ DOMAIN out.m["config"].m["somelist"].e[1].m = {"config", "list"}
    /\ out.m["config"].m["somecount"] = TNum(MaxInt)
\* Marshal(SecondSlot{Name: "up", Second: "up"}, &p) has panicked at the write
\* through somelist[1], after the write of Name
SecondWriteLosesFirst ==
    /\ op = "Marshal" /\ Returned /\ dstArg = "ptr" /\ src.t = "SecondSlot"
    /\ src.f["Name"] = VStr("up") /\ src.f["Second"] = VStr("up")
    /\ SeparateWrites(src, typeRestrain, 0..MaxInt)
    /\ ret = "panic" /\ out = NoTree /\ dst = dstBefore

SourceUnmodifiedOnFailure ==
    /\ Returned /\ op = "Unmarshal" /\ dstArg = "ptr"
    /\ ret \notin {"nil", "pending"} /\ src = srcBefore /\ src # Zero(src.t)

\* the Decode has no value to give to the destination field decl, of one of
\* the kinds K when it is annotated: the field is not annotated, or is skipped
\* for the type restraint, or the source tree holds nothing at its well-formed
\* path
NothingFor(decl, K) ==
    \/ decl.sm = <<>>
    \/ ~Passes(decl, typeRestrain)
    \/ /\ decl.Kind \in K
       /\ WellFormed(EffectivePath(decl, typeRestrain))
       /\ Walk(JsonOf(src).m, EffectivePath(decl, typeRestrain)) \in {"absent", "missing"}
\* a Decode that has returned nil has left as they were the fields it has no
\* value for
DecodeFrameFor(K) ==
    (Decoded /\ dstArg = "ptr") =>
        \A decl \in FieldsOf(dst.t) :
            NothingFor(decl, K) => dst.f[decl.Name] = dstBefore.f[decl.Name]

\* C30: after a Decode that returns nil, into a fresh destination or into one
\* that earlier calls have filled, every destination field that is not
\* annotated, is skipped by type gating, or has nothing at its path in the
\* source tree holds what it held before the call
DecodeFrame == DecodeFrameFor({"string", "int", "bool", "float64", "slice", "map", "ptr"})
\* the same for strings, numbers and booleans
DecodeFrameOfScalars == DecodeFrameFor({"string", "int", "bool", "float64"})
\* the same for the slices, maps and pointers whose path has every key before
\* the last one in the source tree
DecodeFrameUnderParent ==
    (Decoded /\ dstArg = "ptr") =>
        \A decl \in FieldsOf(dst.t) :
            (/\ decl.sm # <<>> /\ Passes(decl, typeRestrain)
             /\ NothingFor(decl, {"slice", "map", "ptr"})
             /\ ~MissingOnTheWay(JsonOf(src).m, EffectivePath(decl, typeRestrain))) =>
                dst.f[decl.Name] = dstBefore.f[decl.Name]
\* a Decode from a source with no sequence at config.somelist, into a
\* destination that an earlier call has filled, has returned nil and has emptied
\* ListedStuff, whose path config.somelist[0].list holds nothing
AbsentPathOverwritten ==
    /\ Decoded /\ dstArg = "ptr" /\ dst.t = "SystemStruct" /\ typeRestrain = "APIObject"
    /\ Walk(JsonOf(src).m, << <<"config">>, <<"somelist", "[", "0", "]">>, <<"list">> >>) = "missing"
    /\ dstBefore.f["ListedStuff"] = VSlice("string", <<VStr("a")>>)
    /\ dst.f["ListedStuff"] = VNilSlice("string")
\* a Decode into a destination that an earlier call has filled has kept the
\* gated-out field and overwritten the one it found
FoundOverwrittenOnly ==
    /\ Decoded /\ dstArg = "ptr" /\ dst.t = "SystemStructWithMultipleDestination"
    /\ \E decl \in FieldsOf(dst.t) :
          /\ decl.sm # <<>> /\ ~Passes(decl, typeRestrain)
          /\ dst.f[decl.Name] = dstBefore.f[decl.Name] /\ ~IsZero(dst.f[decl.Name])
    /\ \E decl \in FieldsOf(dst.t) :
          /\ Passes(decl, typeRestrain) /\ Plain(decl)
          /\ dst.f[decl.Name] # dstBefore.f[decl.Name]
          /\ JsonOf(dst.f[decl.Name]) = At(JsonOf(src).m, EffectivePath(decl, typeRestrain))

====
